---- MODULE Spec2Model ----
(***************************************************************************)
(* A model of kainswor/pong: the PixelDisplay framebuffer                  *)
(* (src/src/pixel-display.js) with its per-pixel fade model and its        *)
(* degauss effect, and the game (src/src/pong.js) on its 160 x 120 court.  *)
(* Time is the value performance.now() returns, in integer milliseconds;   *)
(* the ambient clock is the variable now.                                  *)
(***************************************************************************)
EXTENDS Integers, Sequences, FiniteSets, TLC

VARIABLES
  pixels,               \* this.pixels[y][x] = {state, onTimestamp, offTimestamp}
  now,                  \* the value performance.now() returns
  degaussStartTime,     \* this.degaussStartTime (0 = not running)
  degaussDuration,      \* this.degaussDuration
  degaussStrength,      \* this.degaussStrength
  lastDegaussEndTime,   \* this.lastDegaussEndTime (0 = never)
  lastCall,             \* the most recent step and what it returned or drew
  steps,                \* number of steps taken so far
  lastSet,              \* history: per cell, the value of the most recent setPixel
                        \* on it since the last clear (FALSE if none)
  clearedAt,            \* history: the time of the last clear() if no setPixel
                        \* call followed it, else -1
  lastRunStart,         \* history: the time at which the most recent degauss
                        \* run started (0 if none ever did)
  negligibleStreak,     \* history: the number of degauss() calls since the most
                        \* recent run started that only restarted the cooldown
  renderStreak,         \* history: the number of render() calls made in a row
                        \* up to now, with no other step in between
  lastPattern,          \* history: the pattern, x and y of the last drawPattern
                        \* call and whether every cell was OFF when it was made
  activeSince,          \* history: the time at which degaussStartTime last
                        \* went from 0 to a start time, -1 once render() has
                        \* put it back to 0
  loop,                 \* isRunning, animationFrameId and the animation-frame
                        \* callbacks the browser holds
  stoppedSince,         \* history: the time of the last stop() if no start()
                        \* followed it, else -1
  game,                 \* the fields of the Pong object and of its controllers
  court,                \* the court cells of the game's display that are OFF,
                        \* prevLeftPaddleY, prevRightPaddleY, prevBallX and
                        \* prevBallY, and (history) the court cells that the
                        \* last handler switched off at some point of its run
  gameHist              \* history: the game objects at the last pause, what the
                        \* countdown in progress follows, the paddles the last
                        \* update() hit, the side that scored in it, whether a
                        \* game was won and no new game started since, and the
                        \* times at which the last countdown started and at
                        \* which countdownNumber took its value

vars == <<pixels, now, degaussStartTime, degaussDuration, degaussStrength,
          lastDegaussEndTime, lastCall, steps, lastSet, clearedAt, lastRunStart,
          negligibleStreak, renderStreak, lastPattern, activeSince, loop,
          stoppedSince, game, court, gameHist>>

(***************************************************************************)
(* Bounds of the model.                                                    *)
(***************************************************************************)
emulatedWidth == 2      \* constructor argument emulatedWidth
emulatedHeight == 2     \* constructor argument emulatedHeight
MaxSteps == 4           \* calls and clock advances in one behaviour
MaxRectSteps == 3       \* the same, in the behaviours of SpecRect
MaxDegaussSteps == 7    \* the same, in the behaviours of SpecDegauss
MaxRenderSteps == 6     \* the same, in the behaviours of SpecRender
MaxGlyphSteps == 3      \* the same, in the behaviours of SpecGlyph
MaxLoopSteps == 6       \* the same, in the behaviours of SpecLoop
GlyphWidth == 6         \* emulatedWidth of the display the digits are drawn on
GlyphHeight == 8        \* emulatedHeight of that display

\* the amounts by which the clock advances between two calls
Deltas == {25, 52, 200}
\* the same on the time scale of the degauss effect: within a short run, the
\* length of a full run, past the negligible cooldown, the full cooldown
DegaussDeltas == {20, 2000, 3000, 30000}
\* the same for frames drawn during and after a run: within a fade, the
\* length of a full run
RenderDeltas == {25, 2000}
\* the cells the callers light in the behaviours of SpecRender: the first
\* and the last of the first row
RenderCols == {0, emulatedWidth - 1}

\* coordinates the callers pass: the grid and one cell beyond it on each side
XArgs == -1 .. emulatedWidth
YArgs == -1 .. emulatedHeight
\* rectangle corners the callers pass: left of the grid, its first and its
\* last column (a rectangle of width 2 there spills over the right edge)
RectXArgs == {-1, 0, emulatedWidth - 1}
RectYArgs == {-1, 0, emulatedHeight - 1}
\* rectangle sizes the callers pass
WArgs == {1, 2}
HArgs == {1, 2}

(***************************************************************************)
(* Program constants.                                                      *)
(***************************************************************************)
fadeInTime == 50
fadeOutTime == 200

(***************************************************************************)
(* Exact arithmetic.  The code computes in IEEE doubles; the model keeps   *)
(* the same quantities exactly.  A brightness is a record                  *)
(* [num, den, exp] standing for (num/den)^exp with den > 0 and exp 1 or 6; *)
(* comparisons multiply out in base-10000 limbs (little-endian sequences,  *)
(* <<>> is zero) so that no intermediate value leaves 32 bits.             *)
(***************************************************************************)
Base == 100 * 100

Abs(n) == IF n < 0 THEN -n ELSE n

RECURSIVE BigMulCarry(_, _, _)
BigMulCarry(b, m, c) ==
  IF b = <<>>
  THEN IF c = 0 THEN <<>> ELSE <<c % Base>> \o BigMulCarry(<<>>, m, c \div Base)
  ELSE LET v == Head(b) * m + c
       IN  <<v % Base>> \o BigMulCarry(Tail(b), m, v \div Base)

\* b * m for a limb sequence b and 0 <= m < 200000
BigMul(b, m) == IF m = 0 THEN <<>> ELSE BigMulCarry(b, m, 0)

RECURSIVE BigMulPow(_, _, _)
\* b * m^k
BigMulPow(b, m, k) == IF k = 0 THEN b ELSE BigMulPow(BigMul(b, m), m, k - 1)

RECURSIVE BigCmpAt(_, _, _)
BigCmpAt(a, b, i) ==
  IF i = 0 THEN 0
  ELSE IF a[i] # b[i] THEN (IF a[i] < b[i] THEN -1 ELSE 1)
  ELSE BigCmpAt(a, b, i - 1)

\* -1, 0, 1 as a < b, a = b, a > b
BigCmp(a, b) ==
  IF Len(a) # Len(b) THEN (IF Len(a) < Len(b) THEN -1 ELSE 1)
  ELSE BigCmpAt(a, b, Len(a))

\* the number n/d
Lin(n, d) == [num |-> n, den |-> d, exp |-> 1]
\* Math.pow(n/d, 6)
Pow6(n, d) == [num |-> Abs(n), den |-> d, exp |-> 6]

BZero == Lin(0, 1)
BOne == Lin(1, 1)

Sign(n) == IF n < 0 THEN -1 ELSE IF n > 0 THEN 1 ELSE 0

\* -1, 0, 1 as v < w, v = w, v > w; the first cases need no multiplying out:
\* a negative side, equal denominators and exponents, a side that is 0 or 1
BCmp(v, w) ==
  IF v.num < 0 \/ w.num < 0
  THEN IF v.num >= 0 THEN 1
       ELSE IF w.num >= 0 THEN -1
       ELSE BigCmp(BigMul(<<1>>, Abs(w.num) * v.den), BigMul(<<1>>, Abs(v.num) * w.den))
  ELSE IF v.exp = w.exp /\ v.den = w.den THEN Sign(v.num - w.num)
  ELSE IF w.num = 0 THEN Sign(v.num)
  ELSE IF v.num = 0 THEN -1
  ELSE IF w.num = w.den THEN Sign(v.num - v.den)
  ELSE IF v.num = v.den THEN Sign(w.den - w.num)
  ELSE BigCmp(BigMulPow(BigMulPow(<<1>>, v.num, v.exp), w.den, w.exp),
              BigMulPow(BigMulPow(<<1>>, w.num, w.exp), v.den, v.exp))

BEq(v, w) == BCmp(v, w) = 0
BLess(v, w) == BCmp(v, w) < 0
BLeq(v, w) == BCmp(v, w) <= 0

\* Math.max(v, w) and Math.min(v, w)
BMax(v, w) == IF BLess(v, w) THEN w ELSE v
BMin(v, w) == IF BLess(w, v) THEN w ELSE v

(***************************************************************************)
(* The pixel store.                                                        *)
(***************************************************************************)
Rows == 0 .. emulatedHeight - 1
Cols == 0 .. emulatedWidth - 1

OffCell == [state |-> FALSE, onTimestamp |-> 0, offTimestamp |-> 0]

\* the grid the constructor allocates
InitPixels == [y \in Rows |-> [x \in Cols |-> OffCell]]

\* this.pixels[y][x] is an object (reading a field of undefined throws)
HasCell(px, x, y) == y \in DOMAIN px /\ x \in DOMAIN px[y]

\* variant: the bounds test with <= in place of <
setPixelBoundsOffByOne(x, y) ==
  x >= 0 /\ x <= emulatedWidth /\ y >= 0 /\ y <= emulatedHeight

\* the bounds test of setPixel
setPixelInBounds(x, y) ==
  x >= 0 /\ x < emulatedWidth /\ y >= 0 /\ y < emulatedHeight

\* variant: setPixel without the test pixel.state !== state
setPixelAlwaysStamps(px, x, y, state, t) ==
  IF setPixelInBounds(x, y)
  THEN [pixels |-> [px EXCEPT ![y][x] =
                      IF state
                      THEN [@ EXCEPT !.state = state, !.onTimestamp = t]
                      ELSE [@ EXCEPT !.state = state, !.offTimestamp = t]],
        threw |-> FALSE]
  ELSE [pixels |-> px, threw |-> FALSE]

\* variant: setPixel writing both timestamps on a change
setPixelStampsBoth(px, x, y, state, t) ==
  IF setPixelInBounds(x, y) /\ px[y][x].state # state
  THEN [pixels |-> [px EXCEPT ![y][x] =
                      [state |-> state, onTimestamp |-> t, offTimestamp |-> t]],
        threw |-> FALSE]
  ELSE [pixels |-> px, threw |-> FALSE]

\* setPixel(x, y, state) called when the clock reads t: the grid afterwards
\* and whether the call threw
setPixel(px, x, y, state, t) ==
  IF setPixelInBounds(x, y)
  THEN IF ~HasCell(px, x, y)
       THEN [pixels |-> px, threw |-> TRUE]
       ELSE IF px[y][x].state # state
            THEN [pixels |-> [px EXCEPT ![y][x] =
                                IF state
                                THEN [@ EXCEPT !.state = state, !.onTimestamp = t]
                                ELSE [@ EXCEPT !.state = state, !.offTimestamp = t]],
                  threw |-> FALSE]
            ELSE [pixels |-> px, threw |-> FALSE]
  ELSE [pixels |-> px, threw |-> FALSE]

\* variant: getPixel reading this.pixels[x][y]
getPixelTransposed(px, x, y) ==
  IF x >= 0 /\ x < emulatedWidth /\ y >= 0 /\ y < emulatedHeight
  THEN px[x][y].state
  ELSE FALSE

\* getPixel(x, y)
getPixel(px, x, y) ==
  IF x >= 0 /\ x < emulatedWidth /\ y >= 0 /\ y < emulatedHeight
  THEN px[y][x].state
  ELSE FALSE

\* variant: clear() that skips the cells already off
clearKeepsOffCells(px, t) ==
  [y \in Rows |-> [x \in Cols |->
     IF px[y][x].state
     THEN [px[y][x] EXCEPT !.state = FALSE, !.offTimestamp = t]
     ELSE px[y][x]]]

\* clear() called when the clock reads t
clear(px, t) ==
  [y \in Rows |-> [x \in Cols |->
     [px[y][x] EXCEPT !.state = FALSE, !.offTimestamp = t]]]

\* variant: clearRect with inclusive right and bottom edges
clearRectSkipsClip(px, x, y, w, h, t) ==
  [yy \in Rows |-> [xx \in Cols |->
     IF xx >= x /\ xx <= x + w /\ yy >= y /\ yy <= y + h
     THEN [px[yy][xx] EXCEPT !.state = FALSE, !.offTimestamp = t]
     ELSE px[yy][xx]]]

\* clearRect(x, y, w, h) called when the clock reads t: clear() restricted to
\* the cells of [x, x+w) x [y, y+h) that lie in the grid
clearRect(px, x, y, w, h, t) ==
  [yy \in Rows |-> [xx \in Cols |->
     IF xx >= x /\ xx < x + w /\ yy >= y /\ yy < y + h
     THEN [px[yy][xx] EXCEPT !.state = FALSE, !.offTimestamp = t]
     ELSE px[yy][xx]]]

(***************************************************************************)
(* Patterns.  PIXEL_FONT is the 5 x 7 digit font of src/src/pong.js; a     *)
(* pattern is a sequence of rows of 0 and 1.  drawPattern and toASCII are  *)
(* the bulk draw and the dump the tests call: drawPattern sets the cells   *)
(* of the 1 bits ON through setPixel, as Pong.drawNumber does, and toASCII *)
(* maps getPixel over a rectangle, '#' for ON and '.' for OFF, the rows    *)
(* joined by newlines.                                                     *)
(***************************************************************************)
PIXEL_FONT ==
  [digit \in 0 .. 9 |->
     IF digit = 0 THEN
        << <<1, 1, 1, 1, 1>>,
          <<1, 0, 0, 0, 1>>,
          <<1, 0, 0, 0, 1>>,
          <<1, 0, 0, 0, 1>>,
          <<1, 0, 0, 0, 1>>,
          <<1, 0, 0, 0, 1>>,
          <<1, 1, 1, 1, 1>> >>
     ELSE IF digit = 1 THEN
        << <<0, 0, 1, 0, 0>>,
          <<0, 1, 1, 0, 0>>,
          <<0, 0, 1, 0, 0>>,
          <<0, 0, 1, 0, 0>>,
          <<0, 0, 1, 0, 0>>,
          <<0, 0, 1, 0, 0>>,
          <<0, 1, 1, 1, 0>> >>
     ELSE IF digit = 2 THEN
        << <<1, 1, 1, 1, 1>>,
          <<0, 0, 0, 0, 1>>,
          <<0, 0, 0, 0, 1>>,
          <<1, 1, 1, 1, 1>>,
          <<1, 0, 0, 0, 0>>,
          <<1, 0, 0, 0, 0>>,
          <<1, 1, 1, 1, 1>> >>
     ELSE IF digit = 3 THEN
        << <<1, 1, 1, 1, 1>>,
          <<0, 0, 0, 0, 1>>,
          <<0, 0, 0, 0, 1>>,
          <<1, 1, 1, 1, 1>>,
          <<0, 0, 0, 0, 1>>,
          <<0, 0, 0, 0, 1>>,
          <<1, 1, 1, 1, 1>> >>
     ELSE IF digit = 4 THEN
        << <<1, 0, 0, 0, 1>>,
          <<1, 0, 0, 0, 1>>,
          <<1, 0, 0, 0, 1>>,
          <<1, 1, 1, 1, 1>>,
          <<0, 0, 0, 0, 1>>,
          <<0, 0, 0, 0, 1>>,
          <<0, 0, 0, 0, 1>> >>
     ELSE IF digit = 5 THEN
        << <<1, 1, 1, 1, 1>>,
          <<1, 0, 0, 0, 0>>,
          <<1, 0, 0, 0, 0>>,
          <<1, 1, 1, 1, 1>>,
          <<0, 0, 0, 0, 1>>,
          <<0, 0, 0, 0, 1>>,
          <<1, 1, 1, 1, 1>> >>
     ELSE IF digit = 6 THEN
        << <<1, 1, 1, 1, 1>>,
          <<1, 0, 0, 0, 0>>,
          <<1, 0, 0, 0, 0>>,
          <<1, 1, 1, 1, 1>>,
          <<1, 0, 0, 0, 1>>,
          <<1, 0, 0, 0, 1>>,
          <<1, 1, 1, 1, 1>> >>
     ELSE IF digit = 7 THEN
        << <<1, 1, 1, 1, 1>>,
          <<0, 0, 0, 0, 1>>,
          <<0, 0, 0, 0, 1>>,
          <<0, 0, 0, 0, 1>>,
          <<0, 0, 0, 0, 1>>,
          <<0, 0, 0, 0, 1>>,
          <<0, 0, 0, 0, 1>> >>
     ELSE IF digit = 8 THEN
        << <<1, 1, 1, 1, 1>>,
          <<1, 0, 0, 0, 1>>,
          <<1, 0, 0, 0, 1>>,
          <<1, 1, 1, 1, 1>>,
          <<1, 0, 0, 0, 1>>,
          <<1, 0, 0, 0, 1>>,
          <<1, 1, 1, 1, 1>> >>
     ELSE
        << <<1, 1, 1, 1, 1>>,
          <<1, 0, 0, 0, 1>>,
          <<1, 0, 0, 0, 1>>,
          <<1, 1, 1, 1, 1>>,
          <<0, 0, 0, 0, 1>>,
          <<0, 0, 0, 0, 1>>,
          <<1, 1, 1, 1, 1>> >>]

PatternHeight(pattern) == Len(pattern)
PatternWidth(pattern) == Len(pattern[1])

\* setPixel(x, y, state) on a display constructed with w x h cells, as the
\* tests construct theirs, called when the clock reads t
setPixelOn(w, h, px, x, y, state, t) ==
  IF x >= 0 /\ x < w /\ y >= 0 /\ y < h
  THEN IF ~HasCell(px, x, y)
       THEN [pixels |-> px, threw |-> TRUE]
       ELSE IF px[y][x].state # state
            THEN [pixels |-> [px EXCEPT ![y][x] =
                                IF state
                                THEN [@ EXCEPT !.state = state, !.onTimestamp = t]
                                ELSE [@ EXCEPT !.state = state, !.offTimestamp = t]],
                  threw |-> FALSE]
            ELSE [pixels |-> px, threw |-> FALSE]
  ELSE [pixels |-> px, threw |-> FALSE]

\* getPixel(x, y) on such a display
getPixelOn(w, h, px, x, y) ==
  IF x >= 0 /\ x < w /\ y >= 0 /\ y < h
  THEN px[y][x].state
  ELSE FALSE

\* clear() on such a display
clearOn(w, h, px, t) ==
  [y \in 0 .. h - 1 |-> [x \in 0 .. w - 1 |->
     [px[y][x] EXCEPT !.state = FALSE, !.offTimestamp = t]]]

\* the k-th setPixel call of drawPattern, in the order of its nested loops
\* (row, col, sy, sx), made if the bit of the pattern is 1
drawPatternBit(w, h, px, pattern, x, y, scale, t, k) ==
  LET pw == PatternWidth(pattern) * scale
      row == (k \div (pw * scale)) % PatternHeight(pattern)
      col == (k \div (scale * scale)) % PatternWidth(pattern)
      sy == (k \div scale) % scale
      sx == k % scale
  IN  IF pattern[row + 1][col + 1] = 1
      THEN setPixelOn(w, h, px, x + col * scale + sx, y + row * scale + sy, TRUE, t).pixels
      ELSE px

RECURSIVE drawPatternFrom(_, _, _, _, _, _, _, _, _, _)
\* the setPixel calls of drawPattern from the k-th one up to the one before
\* the n-th: the first half of them, then, on the grid they leave, the rest
\* (a grid without rows has no cell for the rest to set)
drawPatternFrom(w, h, px, pattern, x, y, scale, t, k, n) ==
  IF n <= k THEN px
  ELSE IF n = k + 1 THEN drawPatternBit(w, h, px, pattern, x, y, scale, t, k)
  ELSE LET half == drawPatternFrom(w, h, px, pattern, x, y, scale, t, k, (k + n) \div 2)
       IN  IF DOMAIN half = {} THEN half
           ELSE drawPatternFrom(w, h, half, pattern, x, y, scale, t, (k + n) \div 2, n)

\* drawPattern(pattern, x, y, scale) on a display of w x h cells, called when
\* the clock reads t
drawPattern(w, h, px, pattern, x, y, scale, t) ==
  drawPatternFrom(w, h, px, pattern, x, y, scale, t, 0,
                  PatternWidth(pattern) * scale * PatternHeight(pattern) * scale)

RECURSIVE toASCIIRowTransposed(_, _, _, _, _, _, _)
\* variant: a row of the dump read from this.pixels[x][y]
toASCIIRowTransposed(w, h, px, x, y, rw, k) ==
  IF k >= rw THEN ""
  ELSE (IF getPixelOn(w, h, px, y, x + k) THEN "#" ELSE ".")
       \o toASCIIRowTransposed(w, h, px, x, y, rw, k + 1)

RECURSIVE toASCIIRow(_, _, _, _, _, _, _)
\* the characters of row y from column x + k on, up to column x + rw - 1
toASCIIRow(w, h, px, x, y, rw, k) ==
  IF k >= rw THEN ""
  ELSE (IF getPixelOn(w, h, px, x + k, y) THEN "#" ELSE ".")
       \o toASCIIRow(w, h, px, x, y, rw, k + 1)

RECURSIVE toASCIIFromTransposed(_, _, _, _, _, _, _, _)
toASCIIFromTransposed(w, h, px, x, y, rw, rh, k) ==
  IF k >= rh THEN ""
  ELSE toASCIIRowTransposed(w, h, px, x, y + k, rw, 0)
       \o (IF k + 1 < rh
           THEN "\n" \o toASCIIFromTransposed(w, h, px, x, y, rw, rh, k + 1)
           ELSE "")

RECURSIVE toASCIIFrom(_, _, _, _, _, _, _, _)
\* the rows y + k .. y + rh - 1, joined by newlines
toASCIIFrom(w, h, px, x, y, rw, rh, k) ==
  IF k >= rh THEN ""
  ELSE toASCIIRow(w, h, px, x, y + k, rw, 0)
       \o (IF k + 1 < rh THEN "\n" \o toASCIIFrom(w, h, px, x, y, rw, rh, k + 1) ELSE "")

\* variant: a dump that reads the grid transposed
toASCIITransposed(w, h, px, x, y, rw, rh) ==
  toASCIIFromTransposed(w, h, px, x, y, rw, rh, 0)

\* toASCII(x, y, rw, rh) on a display of w x h cells
toASCII(w, h, px, x, y, rw, rh) == toASCIIFrom(w, h, px, x, y, rw, rh, 0)

(***************************************************************************)
(* The fade model.                                                         *)
(***************************************************************************)
\* variant: the fade-in ramp divided by fadeOutTime
fadeInBrightnessWrongDuration(pixel, currentTime) ==
  IF pixel.onTimestamp > 0 /\ pixel.state
  THEN IF currentTime - pixel.onTimestamp < fadeInTime
       THEN Lin(currentTime - pixel.onTimestamp, fadeOutTime)
       ELSE BOne
  ELSE BZero

\* the fade-in term of calculateBrightness
fadeInBrightness(pixel, currentTime) ==
  IF pixel.onTimestamp > 0
  THEN LET onElapsed == currentTime - pixel.onTimestamp
       IN  IF pixel.state
           THEN IF onElapsed < fadeInTime
                THEN Lin(onElapsed, fadeInTime)
                ELSE BOne
           ELSE BZero
  ELSE BZero

\* variant: a linear fade-out, 1 - t
fadeOutBrightnessLinear(pixel, currentTime) ==
  IF pixel.offTimestamp > 0 /\ currentTime - pixel.offTimestamp < fadeOutTime
  THEN Lin(fadeOutTime - (currentTime - pixel.offTimestamp), fadeOutTime)
  ELSE BZero

\* variant: the fade-out curve without the test offElapsed < fadeOutTime
fadeOutBrightnessNoCutoff(pixel, currentTime) ==
  IF pixel.offTimestamp > 0
  THEN Pow6(fadeOutTime - (currentTime - pixel.offTimestamp), fadeOutTime)
  ELSE BZero

\* variant: a fade-out term computed only while the cell is OFF
fadeOutBrightnessOnlyWhenOff(pixel, currentTime) ==
  IF pixel.offTimestamp > 0 /\ ~pixel.state
        /\ currentTime - pixel.offTimestamp < fadeOutTime
  THEN Pow6(fadeOutTime - (currentTime - pixel.offTimestamp), fadeOutTime)
  ELSE BZero

\* the fade-out term of calculateBrightness: 1 - t = (fadeOutTime - offElapsed) / fadeOutTime
fadeOutBrightness(pixel, currentTime) ==
  IF pixel.offTimestamp > 0
  THEN LET offElapsed == currentTime - pixel.offTimestamp
       IN  IF ~pixel.state
           THEN IF offElapsed < fadeOutTime
                THEN Pow6(fadeOutTime - offElapsed, fadeOutTime)
                ELSE BZero
           ELSE IF offElapsed < fadeOutTime
                THEN Pow6(fadeOutTime - offElapsed, fadeOutTime)
                ELSE BZero
  ELSE BZero

\* variant: calculateBrightness without the final Math.min(1.0, ...)
calculateBrightnessNoClamp(pixel, currentTime) ==
  BMax(fadeInBrightness(pixel, currentTime), fadeOutBrightness(pixel, currentTime))

\* calculateBrightness(pixel, currentTime)
calculateBrightness(pixel, currentTime) ==
  BMin(BOne, BMax(fadeInBrightness(pixel, currentTime),
                  fadeOutBrightness(pixel, currentTime)))

(***************************************************************************)
(* The degauss effect.  strength = Math.pow(x, 1.5) with                   *)
(* x = num/den is kept as the record [num, den]; a duration                *)
(* coef * Math.pow(num/den, 1.5) as [coef, num, den].                      *)
(***************************************************************************)
DEGAUSS_COOLDOWN_MS == 30000
DEGAUSS_COOLDOWN_MIN_MS == 1000
DEGAUSS_DURATION_BASE_MS == 2000
DEGAUSS_AMP_PX == 12
DEGAUSS_FREQ_HZ == 50

\* Math.pow(n/d, 1.5), 0 <= n <= d
Pow15(n, d) == [num |-> n, den |-> d]
\* coef * s
Scaled(coef, s) == [coef |-> coef, num |-> s.num, den |-> s.den]

\* s < 0.01, that is 10000 * num^3 < den^3
StrengthNegligible(s) ==
  BigCmp(BigMul(BigMulPow(<<1>>, s.num, 3), Base), BigMulPow(<<1>>, s.den, 3)) < 0

\* The double coef * Math.pow(num/den, 1.5) is above the number it stands
\* for.  It matters when that number is a whole number of milliseconds:
\* num/den is then the square of a number of tenths, and of these durations
\* of DEGAUSS_DURATION_BASE_MS * Math.pow(x, 1.5) only the one for x = 0.81
\* is not that whole number as a double: Math.pow(0.81, 1.5) is
\* 0.7290000000000001 and the duration 1458.0000000000002.
DurationRoundsUp(dur) ==
  dur.coef = DEGAUSS_DURATION_BASE_MS /\ 100 * dur.num = 81 * dur.den

\* e < dur for a time e in ms: e^2 * den^3 against coef^2 * num^3 when
\* e >= 0 (dur is never negative), and the rounding of the double when the
\* two are equal
ElapsedLess(e, dur) ==
  IF e < 0 THEN TRUE
  ELSE LET c == BigCmp(BigMulPow(BigMulPow(<<1>>, e, 2), dur.den, 3),
                       BigMulPow(BigMulPow(<<1>>, dur.coef, 2), dur.num, 3))
       IN  c < 0 \/ (c = 0 /\ DurationRoundsUp(dur))

\* Math.max(0, Math.min(1, n/d)) as a numerator over d
Clamp01Num(n, d) == IF n < 0 THEN 0 ELSE IF n > d THEN d ELSE n

\* the degauss fields of the display
DegaussState(start, dur, strength, lastEnd) ==
  [degaussStartTime |-> start, degaussDuration |-> dur,
   degaussStrength |-> strength, lastDegaussEndTime |-> lastEnd]

\* the fields the constructor sets
InitDegauss == DegaussState(0, Scaled(0, Pow15(0, 1)), Pow15(0, 1), 0)

\* variant: the cooldown normalised by DEGAUSS_COOLDOWN_MS
cooldownStrengthWrongSpan(lastEnd, t) ==
  LET elapsed == IF lastEnd = 0 THEN DEGAUSS_COOLDOWN_MS ELSE t - lastEnd
  IN  Pow15(Clamp01Num(elapsed - DEGAUSS_COOLDOWN_MIN_MS, DEGAUSS_COOLDOWN_MS),
            DEGAUSS_COOLDOWN_MS)

\* variant: the cooldown without the case of a display that never ran
cooldownStrengthNoNeverCase(lastEnd, t) ==
  LET den == DEGAUSS_COOLDOWN_MS - DEGAUSS_COOLDOWN_MIN_MS
  IN  Pow15(Clamp01Num((t - lastEnd) - DEGAUSS_COOLDOWN_MIN_MS, den), den)

\* the strength degauss() computes at time t from lastDegaussEndTime
cooldownStrength(lastEnd, t) ==
  LET elapsed == IF lastEnd = 0 THEN DEGAUSS_COOLDOWN_MS ELSE t - lastEnd
      den == DEGAUSS_COOLDOWN_MS - DEGAUSS_COOLDOWN_MIN_MS
  IN  Pow15(Clamp01Num(elapsed - DEGAUSS_COOLDOWN_MIN_MS, den), den)

\* variant: a negligible trigger that leaves lastDegaussEndTime alone
degaussStartKeepsCooldown(g, t) ==
  LET strength == cooldownStrength(g.lastDegaussEndTime, t)
  IN  IF StrengthNegligible(strength)
      THEN g
      ELSE [g EXCEPT !.degaussStartTime = t,
                     !.degaussDuration = Scaled(DEGAUSS_DURATION_BASE_MS, strength),
                     !.degaussStrength = strength]

\* variant: a run that always lasts DEGAUSS_DURATION_BASE_MS
degaussStartFixedDuration(g, t) ==
  LET strength == cooldownStrength(g.lastDegaussEndTime, t)
  IN  IF StrengthNegligible(strength)
      THEN [g EXCEPT !.lastDegaussEndTime = t]
      ELSE [g EXCEPT !.degaussStartTime = t,
                     !.degaussDuration = Scaled(DEGAUSS_DURATION_BASE_MS, Pow15(1, 1)),
                     !.degaussStrength = strength]

\* degauss() past its no-stacking test
degaussStart(g, t) ==
  LET strength == cooldownStrength(g.lastDegaussEndTime, t)
  IN  IF StrengthNegligible(strength)
      THEN [g EXCEPT !.lastDegaussEndTime = t]
      ELSE [g EXCEPT !.degaussStartTime = t,
                     !.degaussDuration = Scaled(DEGAUSS_DURATION_BASE_MS, strength),
                     !.degaussStrength = strength]

\* variant: degauss() without the no-stacking test
degaussNoStackingTest(g, t) == degaussStart(g, t)

\* degauss() called on the fields g when the clock reads t
degauss(g, t) ==
  IF g.degaussStartTime # 0 /\ ElapsedLess(t - g.degaussStartTime, g.degaussDuration)
  THEN g
  ELSE degaussStart(g, t)

\* variant: the end check one time unit late
degaussEndCheckStrict(g, currentTime) ==
  IF g.degaussStartTime # 0
     /\ ~ElapsedLess(currentTime - g.degaussStartTime - 1, g.degaussDuration)
  THEN [g EXCEPT !.degaussStartTime = 0, !.lastDegaussEndTime = currentTime]
  ELSE g

\* variant: an end check that records the end but keeps the marker
degaussEndCheckKeepsMarker(g, currentTime) ==
  IF g.degaussStartTime # 0
     /\ ~ElapsedLess(currentTime - g.degaussStartTime, g.degaussDuration)
  THEN [g EXCEPT !.lastDegaussEndTime = currentTime]
  ELSE g

\* the end check at the top of render()
degaussEndCheck(g, currentTime) ==
  IF g.degaussStartTime # 0
     /\ ~ElapsedLess(currentTime - g.degaussStartTime, g.degaussDuration)
  THEN [g EXCEPT !.degaussStartTime = 0, !.lastDegaussEndTime = currentTime]
  ELSE g

(***************************************************************************)
(* render().  The physical geometry is rational: a length is Lin(n, d).    *)
(* The degauss warp uses Math.pow, Math.exp, Math.sqrt and Math.sin on     *)
(* doubles; the model computes them in fixed point, in units of 1/Fine     *)
(* with Fine = 10^8, from the exact rational arguments, so that dx and dy  *)
(* are the code's to within 4 * 10^-7.  Where the exact sine is 0 the sign *)
(* of the double the code gets is tabulated.                               *)
(***************************************************************************)
displayWidth == 7       \* constructor argument displayWidth
displayHeight == 7      \* constructor argument displayHeight
gapWidth == 1
gapHeight == 1

\* numerators over emulatedWidth / emulatedHeight
pixelWidthNum == displayWidth - (emulatedWidth - 1) * gapWidth
pixelHeightNum == displayHeight - (emulatedHeight - 1) * gapHeight
stepXNum == pixelWidthNum + gapWidth * emulatedWidth
stepYNum == pixelHeightNum + gapHeight * emulatedHeight

Fine == Base * Base

\* Math.floor(a * b / Fine) for 0 <= a < 13 * Fine and 0 <= b < 3 * Fine,
\* by halves of four digits so that no product leaves 32 bits
MulFine(a, b) ==
  LET a1 == a \div Base
      a0 == a % Base
      b1 == b \div Base
      b0 == b % Base
  IN  a1 * b1 + (a1 * b0 + a0 * b1 + (a0 * b0) \div Base) \div Base

RECURSIVE DivDigits(_, _, _, _)
\* long division: k more decimal digits of rem / b after the quotient q
DivDigits(q, rem, b, k) ==
  IF k = 0 THEN q
  ELSE DivDigits(q * 10 + (rem * 10) \div b, (rem * 10) % b, b, k - 1)

\* Math.floor(Fine * a / b) for a >= 0 and 0 < b < 2 * Fine
DivFine(a, b) == DivDigits(a \div b, a % b, b, 8)

RECURSIVE SqrtBetween(_, _, _)
SqrtBetween(v, lo, hi) ==
  IF lo >= hi THEN lo
  ELSE LET mid == (lo + hi + 1) \div 2
       IN  IF MulFine(mid, mid) <= v THEN SqrtBetween(v, mid, hi)
           ELSE SqrtBetween(v, lo, mid - 1)

\* Fine * Math.sqrt(v / Fine) for 0 <= v <= Fine
SqrtFine(v) == SqrtBetween(v, 0, Fine)

RECURSIVE ExpSeries(_, _, _)
\* the series of exp(-r) by Horner's rule: terms n and above, given the
\* terms above n
ExpSeries(r, n, h) ==
  IF n = 0 THEN h ELSE ExpSeries(r, n - 1, Fine - MulFine(r, h) \div n)

\* Fine * Math.exp(-r / Fine) for 0 <= r < Fine (the series up to r^14 / 14!)
ExpNegUnit(r) == ExpSeries(r, 14, Fine)

RECURSIVE ExpNegTimes(_, _)
\* v * Math.exp(-k), Fine * Math.exp(-1) being 36787944
ExpNegTimes(v, k) == IF k = 0 THEN v ELSE ExpNegTimes(MulFine(v, 36787944), k - 1)

\* Fine * decay, decay = Math.exp(-DEGAUSS_DECAY_ALPHA * t_sec) with
\* DEGAUSS_DECAY_ALPHA = 2.5 and t_sec = tMs / 1000: the exponent is tMs / 400
DecayFixed(tMs) ==
  ExpNegTimes(ExpNegUnit((tMs % 400) * (Fine \div 400)), tMs \div 400)

\* Fine * Math.pow(num/den, 1.5)
StrengthFixed(s) ==
  LET xf == DivFine(s.num, s.den)
  IN  MulFine(xf, SqrtFine(xf))

\* Fine * edge, edge = 0.4 + 0.6 * Math.min(1, r) with
\* r = 2 * Math.sqrt((nx - 0.5)^2 + (ny - 0.5)^2), nx = pixelX / displayWidth
EdgeFixed(x, y) ==
  LET ax == 2 * x * stepXNum - emulatedWidth * displayWidth
      dx == 2 * emulatedWidth * displayWidth
      ay == 2 * y * stepYNum - emulatedHeight * displayHeight
      dy == 2 * emulatedHeight * displayHeight
      r2 == 4 * (DivFine(ax * ax, dx * dx) + DivFine(ay * ay, dy * dy))
      r == IF r2 >= Fine THEN Fine ELSE SqrtFine(r2)
  IN  (4 * Fine) \div 10 + (r \div 10) * 6 + ((r % 10) * 6) \div 10

\* Fine * Math.PI / 2
HalfPi == 157079633

RECURSIVE SinSeries(_, _, _)
\* the series of sin(t) / t in t2 = t^2 by Horner's rule
SinSeries(t2, n, h) ==
  IF n = 0 THEN h
  ELSE SinSeries(t2, n - 1, Fine - MulFine(t2, h) \div ((2 * n) * (2 * n + 1)))

\* Fine * Math.sin((Math.PI / 2) * j / m) for 0 <= j <= m (the series up to
\* t^19 / 19!)
SinQuarter(j, m) ==
  LET t == (HalfPi \div m) * j + ((HalfPi % m) * j) \div m
  IN  MulFine(t, SinSeries(MulFine(t, t), 9, Fine))

\* Fine * Math.sin(2 * Math.PI * p / q) for a phase of p/q turns, p >= 0
SinTurns(p, q) ==
  LET n == 4 * (p % q)
      quadrant == n \div q
      rem == n % q
      mag == SinQuarter(IF quadrant % 2 = 0 THEN rem ELSE q - rem, q)
  IN  IF quadrant < 2 THEN mag ELSE -mag

\* the phase of the sine of dx in turns, as [p, q] for p / q:
\* f * t_sec + k * nx with f = DEGAUSS_FREQ_HZ and k = DEGAUSS_WAVE_K = 2.5
PhaseX(x, tMs) ==
  [p |-> tMs * emulatedWidth * displayWidth + DEGAUSS_FREQ_HZ * x * stepXNum,
   q |-> 20 * emulatedWidth * displayWidth]

\* the phase of the sine of dy: f * t_sec + 1/4 + k * ny
PhaseY(y, tMs) ==
  [p |-> tMs * emulatedHeight * displayHeight + 5 * emulatedHeight * displayHeight
           + DEGAUSS_FREQ_HZ * y * stepYNum,
   q |-> 20 * emulatedHeight * displayHeight]

\* Fine * A * edge * decay, the common factor of dx and dy
WarpAmplitude(x, y, tMs, strength) ==
  MulFine(MulFine(DEGAUSS_AMP_PX * StrengthFixed(strength), EdgeFixed(x, y)),
          DecayFixed(tMs))

\* Fine * dx and Fine * dy
WarpDx(x, y, tMs, strength) ==
  LET sine == SinTurns(PhaseX(x, tMs).p, PhaseX(x, tMs).q)
  IN  Sign(sine) * MulFine(WarpAmplitude(x, y, tMs, strength), Abs(sine))
WarpDy(x, y, tMs, strength) ==
  LET sine == SinTurns(PhaseY(y, tMs).p, PhaseY(y, tMs).q)
  IN  Sign(sine) * MulFine(WarpAmplitude(x, y, tMs, strength), Abs(sine))

\* The times tMs into a run at which the phase of dx in column 0 is a whole
\* number of half turns and the double
\* Math.sin(2 * Math.PI * f * t_sec + 2 * Math.PI * k * 0) is above 0: the
\* argument is a double next to a multiple of Math.PI, and its sine a
\* number of the order of 10^-15; at the other multiples of 10 ms but 0 the
\* sine is below 0, and at 0 it is 0.
SinAboveZeroX ==
  {10, 30, 90, 100, 140, 200, 220, 260, 280, 300, 330, 340, 350, 370, 380,
   400, 410, 420, 430, 440, 450, 460, 500, 510, 520, 530, 540, 560, 570,
   580, 590, 600, 610, 620, 680, 690, 750, 760, 770, 780, 800, 840, 850,
   880, 910, 920, 940, 950, 970, 980, 1000, 1010, 1040, 1080, 1100, 1120,
   1130, 1150, 1160, 1170, 1190, 1200, 1230, 1240, 1260, 1270, 1300, 1340,
   1360, 1390, 1410, 1420, 1430, 1450, 1460, 1490, 1520, 1530, 1560, 1580,
   1600, 1620, 1630, 1650, 1660, 1680, 1690, 1710, 1730, 1740, 1760, 1780,
   1810, 1840, 1860, 1880, 1910, 1930, 1950, 1960, 1980}

\* the same for dy in row 0:
\* Math.sin(2 * Math.PI * f * t_sec + Math.PI / 2 + 2 * Math.PI * k * 0)
\* at the times 5, 15, 25, ... ms
SinAboveZeroY ==
  {5, 25, 35, 45, 115, 135, 155, 195, 205, 225, 265, 285, 305, 325, 335,
   345, 365, 385, 415, 425, 435, 445, 485, 495, 505, 515, 525, 535, 555,
   565, 585, 605, 675, 705, 725, 745, 755, 765, 775, 795, 825, 835, 845,
   865, 875, 905, 915, 935, 945, 965, 995, 1005, 1025, 1045, 1065, 1085,
   1095, 1105, 1125, 1135, 1155, 1165, 1175, 1195, 1215, 1235, 1265, 1285,
   1305, 1325, 1345, 1355, 1385, 1395, 1415, 1425, 1435, 1455, 1475, 1495,
   1505, 1525, 1545, 1565, 1575, 1585, 1605, 1615, 1635, 1655, 1675, 1695,
   1715, 1735, 1755, 1775, 1805, 1815, 1835, 1855, 1875, 1895, 1915, 1935,
   1955, 1975, 1995}

\* Math.floor((pixel - d) / step) for the cell index c = pixel / step and the
\* displacement d / Fine, cells / stepNum being 1 / step; above tells the
\* sign of a displacement too small for the fixed point
FloorSrc(c, d, cells, stepNum, above) ==
  LET shift == (Abs(d) \div stepNum) * cells + ((Abs(d) % stepNum) * cells) \div stepNum
  IN  IF d > 0 THEN c - 1 - shift \div Fine
      ELSE IF d < 0 THEN c + shift \div Fine
      ELSE IF above THEN c - 1
      ELSE c

\* Math.floor(x_src) and Math.floor(y_src), x_src = (pixelX - dx) / stepX;
\* with these grids the exact sine is 0 in column 0 and in row 0 only
FloorXSrc(x, y, tMs, strength) ==
  FloorSrc(x, WarpDx(x, y, tMs, strength), emulatedWidth, stepXNum,
           x = 0 /\ tMs \in SinAboveZeroX)
FloorYSrc(x, y, tMs, strength) ==
  FloorSrc(y, WarpDy(x, y, tMs, strength), emulatedHeight, stepYNum,
           y = 0 /\ tMs \in SinAboveZeroY)

\* Math.max(0, Math.min(hi, v))
ClampIndex(v, hi) == IF v > hi THEN hi ELSE IF v < 0 THEN 0 ELSE v

\* the cell the degauss path samples for the destination (x, y)
WarpSource(x, y, tMs, strength) ==
  [x |-> ClampIndex(FloorXSrc(x, y, tMs, strength), emulatedWidth - 1),
   y |-> ClampIndex(FloorYSrc(x, y, tMs, strength), emulatedHeight - 1)]

\* one ctx.fillStyle = style-with-alpha; ctx.fillRect(x, y, w, h)
Fill(style, alpha, x, y, w, h) ==
  [style |-> style, alpha |-> alpha, x |-> x, y |-> y, w |-> w, h |-> h]

BlackFill ==
  Fill("#000000", BOne, Lin(0, 1), Lin(0, 1), Lin(displayWidth, 1), Lin(displayHeight, 1))

\* the rectangle of cell (x, y) in the on colour #39ff14 at alpha brightness
CellFill(x, y, brightness) ==
  Fill("rgba(57, 255, 20)", brightness,
       Lin(x * stepXNum, emulatedWidth), Lin(y * stepYNum, emulatedHeight),
       Lin(pixelWidthNum, emulatedWidth), Lin(pixelHeightNum, emulatedHeight))

\* Fine * overlayAlpha,
\* overlayAlpha = decay * strength * DEGAUSS_OVERLAY_ALPHA (0.35)
OverlayAlpha(tMs, strength) ==
  LET v == MulFine(DecayFixed(tMs), StrengthFixed(strength))
  IN  (v \div 100) * 35 + ((v % 100) * 35) \div 100

\* the overlay of a frame drawn tMs into a run
OverlayFill(tMs, strength) ==
  Fill("rgba(255, 0, 255)", Lin(OverlayAlpha(tMs, strength), Fine),
       Lin(0, 1), Lin(0, 1), Lin(displayWidth, 1), Lin(displayHeight, 1))

\* the cells in the order of the two nested loops: rows outside, columns inside
CellOrder ==
  [i \in 1 .. emulatedWidth * emulatedHeight |->
     [x |-> (i - 1) % emulatedWidth, y |-> (i - 1) \div emulatedWidth]]

\* variant: per-cell loops that index the grid as pixels[x][y]
CellFillsTransposed(px, g, currentTime) ==
  LET active == g.degaussStartTime # 0
      tMs == currentTime - g.degaussStartTime
      fillOf(c) ==
        LET src == IF active THEN WarpSource(c.x, c.y, tMs, g.degaussStrength) ELSE c
        IN  CellFill(c.x, c.y, calculateBrightness(px[src.x][src.y], currentTime))
      all == [i \in DOMAIN CellOrder |-> fillOf(CellOrder[i])]
  IN  SelectSeq(all, LAMBDA d : BLess(BZero, d.alpha))

\* variant: per-cell loops that paint the sampled cell's rectangle
CellFillsAtSource(px, g, currentTime) ==
  LET active == g.degaussStartTime # 0
      tMs == currentTime - g.degaussStartTime
      fillOf(c) ==
        LET src == IF active THEN WarpSource(c.x, c.y, tMs, g.degaussStrength) ELSE c
        IN  CellFill(src.x, src.y, calculateBrightness(px[src.y][src.x], currentTime))
      all == [i \in DOMAIN CellOrder |-> fillOf(CellOrder[i])]
  IN  SelectSeq(all, LAMBDA d : BLess(BZero, d.alpha))

\* the fillRect calls of the per-cell loops: only cells of brightness > 0 draw
CellFills(px, g, currentTime) ==
  LET active == g.degaussStartTime # 0
      tMs == currentTime - g.degaussStartTime
      fillOf(c) ==
        LET src == IF active THEN WarpSource(c.x, c.y, tMs, g.degaussStrength) ELSE c
        IN  CellFill(c.x, c.y, calculateBrightness(px[src.y][src.x], currentTime))
      all == [i \in DOMAIN CellOrder |-> fillOf(CellOrder[i])]
  IN  SelectSeq(all, LAMBDA d : BLess(BZero, d.alpha))

\* variant: a render() that draws the frame first and checks the end of the
\* run afterwards
renderChecksEndLast(px, g, currentTime) ==
  [degauss |-> degaussEndCheck(g, currentTime),
   draws |-> <<BlackFill>> \o CellFills(px, g, currentTime)
             \o (IF g.degaussStartTime # 0
                 THEN <<OverlayFill(currentTime - g.degaussStartTime, g.degaussStrength)>>
                 ELSE <<>>)]

\* variant: a render() that composites the overlay before the cells
renderOverlayBeforeCells(px, g, currentTime) ==
  LET g2 == degaussEndCheck(g, currentTime)
  IN  [degauss |-> g2,
       draws |-> <<BlackFill>>
                 \o (IF g2.degaussStartTime # 0
                     THEN <<OverlayFill(currentTime - g2.degaussStartTime,
                                        g2.degaussStrength)>>
                     ELSE <<>>)
                 \o CellFills(px, g2, currentTime)]

\* render() when the clock reads currentTime: the degauss fields afterwards
\* and the draw calls issued, in order
render(px, g, currentTime) ==
  LET g2 == degaussEndCheck(g, currentTime)
      active == g2.degaussStartTime # 0
  IN  [degauss |-> g2,
       draws |-> <<BlackFill>> \o CellFills(px, g2, currentTime)
                 \o (IF active
                     THEN <<OverlayFill(currentTime - g2.degaussStartTime,
                                        g2.degaussStrength)>>
                     ELSE <<>>)]

(***************************************************************************)
(* Doubles.  The game computes positions and velocities in IEEE-754        *)
(* binary64 with rounding to nearest, ties to even, and the model computes *)
(* the same values bit for bit.  A natural number is a little-endian       *)
(* sequence of limbs in base 2^14 without leading zeros (<<>> is zero).  A *)
(* double is a record [neg, m, e] of value (-1)^neg * m * 2^e whose        *)
(* significand m has exactly 53 bits, or DZero; -0 is kept as 0, and the   *)
(* subnormal numbers, the infinities and NaN do not occur in the game.     *)
(***************************************************************************)
Limb == 128 * 128

RECURSIVE NatTrim(_)
NatTrim(a) ==
  IF a = <<>> THEN a
  ELSE IF a[Len(a)] = 0 THEN NatTrim(SubSeq(a, 1, Len(a) - 1))
  ELSE a

RECURSIVE NatAddCarry(_, _, _)
NatAddCarry(a, b, c) ==
  IF a = <<>> /\ b = <<>> THEN (IF c = 0 THEN <<>> ELSE <<c>>)
  ELSE IF a = <<>> THEN NatAddCarry(b, a, c)
  ELSE LET v == Head(a) + (IF b = <<>> THEN 0 ELSE Head(b)) + c
       IN  <<v % Limb>> \o NatAddCarry(Tail(a), IF b = <<>> THEN b ELSE Tail(b), v \div Limb)

NatAdd(a, b) == NatAddCarry(a, b, 0)

RECURSIVE NatSubBorrow(_, _, _)
NatSubBorrow(a, b, c) ==
  IF a = <<>> THEN <<>>
  ELSE LET v == Head(a) - (IF b = <<>> THEN 0 ELSE Head(b)) - c
       IN  <<v % Limb>> \o NatSubBorrow(Tail(a), IF b = <<>> THEN b ELSE Tail(b),
                                        IF v < 0 THEN 1 ELSE 0)

\* a - b for a >= b
NatSub(a, b) == NatTrim(NatSubBorrow(a, b, 0))

RECURSIVE NatMulCarry(_, _, _)
\* a * m + c for a limb m
NatMulCarry(a, m, c) ==
  IF a = <<>> THEN (IF c = 0 THEN <<>> ELSE <<c>>)
  ELSE LET v == Head(a) * m + c
       IN  <<v % Limb>> \o NatMulCarry(Tail(a), m, v \div Limb)

RECURSIVE NatMul(_, _)
NatMul(a, b) ==
  IF b = <<>> \/ a = <<>> THEN <<>>
  ELSE NatAdd(NatMulCarry(a, Head(b), 0), <<0>> \o NatMul(a, Tail(b)))

RECURSIVE NatCmpAt(_, _, _)
NatCmpAt(a, b, i) ==
  IF i = 0 THEN 0
  ELSE IF a[i] # b[i] THEN (IF a[i] < b[i] THEN -1 ELSE 1)
  ELSE NatCmpAt(a, b, i - 1)

\* -1, 0, 1 as a < b, a = b, a > b
NatCmp(a, b) ==
  IF Len(a) # Len(b) THEN (IF Len(a) < Len(b) THEN -1 ELSE 1)
  ELSE NatCmpAt(a, b, Len(a))

RECURSIVE NatDivRem(_, _)
\* quotient (not trimmed) and remainder of a by a limb n > 0
NatDivRem(a, n) ==
  IF a = <<>> THEN [q |-> <<>>, r |-> 0]
  ELSE LET hi == NatDivRem(Tail(a), n)
           v == hi.r * Limb + Head(a)
       IN  [q |-> <<v \div n>> \o hi.q, r |-> v % n]

RECURSIVE BitLen(_)
BitLen(v) == IF v = 0 THEN 0 ELSE 1 + BitLen(v \div 2)

\* the number of bits of a
NatBits(a) == IF a = <<>> THEN 0 ELSE 14 * (Len(a) - 1) + BitLen(a[Len(a)])

Zeros(n) == [i \in 1 .. n |-> 0]

\* a * 2^k for a # 0
NatShl(a, k) == Zeros(k \div 14) \o NatMulCarry(a, 2 ^ (k % 14), 0)

\* a div 2^k, and whether a mod 2^k # 0, from the quotient and remainder d of
\* the limbs of a above the lowest k \div 14 by 2^(k % 14)
ShiftedRight(a, k, d) ==
  [q |-> NatTrim(d.q),
   sticky |-> d.r # 0 \/ \E i \in 1 .. k \div 14 : i <= Len(a) /\ a[i] # 0]

NatShr(a, k) ==
  ShiftedRight(a, k,
               NatDivRem(IF k \div 14 >= Len(a) THEN <<>>
                         ELSE SubSeq(a, k \div 14 + 1, Len(a)),
                         2 ^ (k % 14)))

RECURSIVE NatInt(_)
NatInt(a) == IF a = <<>> THEN 0 ELSE Head(a) + Limb * NatInt(Tail(a))

RECURSIVE IntNat(_)
IntNat(k) == IF k = 0 THEN <<>> ELSE <<k % Limb>> \o IntNat(k \div Limb)

DZero == [neg |-> FALSE, m |-> <<>>, e |-> 0]

Dbl(neg, m, e) == [neg |-> neg, m |-> m, e |-> e]

\* (-1)^neg * n * 2^e for a number n # 0 of len <= 53 bits
Widened(neg, n, e, len) == Dbl(neg, NatShl(n, 53 - len), e - (53 - len))

\* (-1)^neg * m * 2^e for a significand m of 53 bits, or of 54 bits after a
\* carry, which are then 1 and 53 times 0
Carried(neg, m, e) ==
  IF NatBits(m) = 54 THEN Dbl(neg, NatShr(m, 1).q, e + 1) ELSE Dbl(neg, m, e)

\* the double nearest to a number of significand q, guard bit guard and
\* more set bits below it or none: up if the number is nearer to q + 1, or
\* as near and q is odd
Nearest(neg, q, e, guard, more) ==
  Carried(neg, IF guard /\ (more \/ q[1] % 2 = 1) THEN NatAdd(q, <<1>>) ELSE q, e)

\* the same for s, the significand with its guard bit as lowest bit
Guarded(neg, s, e, sticky) ==
  Nearest(neg, NatShr(s.q, 1).q, e, s.q[1] % 2 = 1, s.sticky \/ sticky)

\* the double nearest to (-1)^neg * n * 2^e, for a number n # 0 of len bits
Rounded(neg, n, e, sticky, len) ==
  IF len <= 53 THEN Widened(neg, n, e, len)
  ELSE Guarded(neg, NatShr(n, len - 54), e + (len - 53), sticky)

\* the double nearest to (-1)^neg * n * 2^e, the even one of two equally near;
\* sticky says that the number rounded is a little more than n * 2^e
Round(neg, n, e, sticky) ==
  IF n = <<>> THEN DZero ELSE Rounded(neg, n, e, sticky, NatBits(n))

\* -a and Math.abs(a)
DNeg(a) == IF a.m = <<>> THEN a ELSE [a EXCEPT !.neg = ~@]
DAbs(a) == [a EXCEPT !.neg = FALSE]

\* the sum of (-1)^a.neg * x * 2^e and (-1)^b.neg * y * 2^e
Sum(a, b, x, y, e) ==
  Round(IF a.neg = b.neg \/ NatCmp(x, y) > 0 THEN a.neg ELSE b.neg,
        IF a.neg = b.neg THEN NatAdd(x, y)
        ELSE IF NatCmp(x, y) > 0 THEN NatSub(x, y)
        ELSE NatSub(y, x),
        e, FALSE)

\* a + b for a and b with the exponent e of the lower one
Aligned(a, b, e) == Sum(a, b, NatShl(a.m, a.e - e), NatShl(b.m, b.e - e), e)

\* a + b
DAdd(a, b) ==
  IF a.m = <<>> THEN b
  ELSE IF b.m = <<>> THEN a
  ELSE IF a.e - b.e > 60 THEN a
  ELSE IF b.e - a.e > 60 THEN b
  ELSE Aligned(a, b, IF a.e < b.e THEN a.e ELSE b.e)

\* a - b
DSub(a, b) == DAdd(a, DNeg(b))

\* a * b
DMul(a, b) ==
  IF a.m = <<>> \/ b.m = <<>> THEN DZero
  ELSE Round(a.neg # b.neg, NatMul(a.m, b.m), a.e + b.e, FALSE)

\* a / n from the quotient and the remainder d of a.m * 2^28 by n
Quotient(a, d) == Round(a.neg, NatTrim(d.q), a.e - 28, d.r # 0)

\* a / n for a whole number 0 < n < 2^14
DDiv(a, n) ==
  IF a.m = <<>> THEN DZero ELSE Quotient(a, NatDivRem(<<0, 0>> \o a.m, n))

\* the double of a whole number k
DInt(k) ==
  IF k = 0 THEN DZero
  ELSE IF k < 0 THEN Widened(TRUE, IntNat(-k), 0, NatBits(IntNat(-k)))
  ELSE Widened(FALSE, IntNat(k), 0, NatBits(IntNat(k)))

\* the double of a decimal literal p / q, as 1.8 = Dec(18, 10)
Dec(p, q) == DDiv(DInt(p), q)

\* -1, 0, 1 as a < b, a = b, a > b, for a and b of the same sign and not 0
Ordered(a, b) ==
  IF a.e # b.e THEN (IF (a.e < b.e) # a.neg THEN -1 ELSE 1)
  ELSE IF a.neg THEN NatCmp(b.m, a.m)
  ELSE NatCmp(a.m, b.m)

\* -1, 0, 1 as a < b, a = b, a > b
DCmp(a, b) ==
  IF a.m = <<>> /\ b.m = <<>> THEN 0
  ELSE IF a.m = <<>> THEN (IF b.neg THEN 1 ELSE -1)
  ELSE IF b.m = <<>> THEN (IF a.neg THEN -1 ELSE 1)
  ELSE IF a.neg # b.neg THEN (IF a.neg THEN -1 ELSE 1)
  ELSE Ordered(a, b)

DLess(a, b) == DCmp(a, b) < 0
DLeq(a, b) == DCmp(a, b) <= 0

\* Math.max(a, b) and Math.min(a, b)
DMax(a, b) == IF DLess(a, b) THEN b ELSE a
DMin(a, b) == IF DLess(b, a) THEN b ELSE a

\* Math.floor(a) from s, the whole part of |a| and whether there is more
Floor(a, s) ==
  IF ~a.neg THEN NatInt(s.q) ELSE IF s.sticky THEN -NatInt(s.q) - 1 ELSE -NatInt(s.q)

\* Math.floor(a) for |a| < 2^30
DFloor(a) ==
  IF a.m = <<>> THEN 0
  ELSE IF a.e >= 0 THEN (IF a.neg THEN -1 ELSE 1) * NatInt(NatShl(a.m, a.e))
  ELSE Floor(a, NatShr(a.m, -a.e))

(***************************************************************************)
(* The game (src/src/pong.js), on the display the page constructs for it:  *)
(* new PixelDisplay(canvas, 160, 120, 800, 600).  Of the state of Pong and *)
(* of its controllers the model keeps the fields that the game logic       *)
(* reads; the fields that only animate the drawing (title position, arrow  *)
(* rotation, button scale) are left out.  Positions and velocities are     *)
(* doubles, times are whole milliseconds.                                  *)
(***************************************************************************)
width == 160            \* display.emulatedWidth of the game's display
height == 120           \* display.emulatedHeight of the game's display

PADDLE_WIDTH == 2
PADDLE_HEIGHT == 14
PADDLE_SPEED == Dec(18, 10)
BALL_SPEED == DInt(1)
PADDLE_LEFT_X == 2
PADDLE_RIGHT_X == width - 4
GOALS_TO_WIN == 5
countdownDuration == 750

\* AIController: the fields the constructor sets
skill == Dec(5, 10)
maxReactionTime == 500
minReactionTime == 150
smoothingFactor == Dec(15, 100)

Half == Dec(5, 10)

\* Math.floor(height / 2 - PADDLE_HEIGHT / 2)
PaddleStartY == DInt((height - PADDLE_HEIGHT) \div 2)

\* Math.floor(width / 2) and Math.floor(height / 2)
CentreX == DInt(width \div 2)
CentreY == DInt(height \div 2)

InitAI ==
  [targetY |-> DZero, currentVelocity |-> DZero, lastDirection |-> 0,
   directionChangeTime |-> 0, reactionDelay |-> DZero, reacting |-> FALSE]

\* the game after new Pong(display); savedState is <<>> for null
InitGame ==
  [gameState |-> "MENU",
   countdownNumber |-> 3,
   countdownStartTime |-> 0,
   winner |-> "null",
   gameOverStartTime |-> 0,
   savedState |-> <<>>,
   resumingFromPause |-> FALSE,
   leftPaddle |-> [y |-> PaddleStartY],
   rightPaddle |-> [y |-> PaddleStartY],
   ball |-> [x |-> CentreX, y |-> CentreY, vx |-> DZero, vy |-> DZero],
   score |-> [left |-> 0, right |-> 0],
   keys |-> [ArrowUp |-> FALSE, ArrowDown |-> FALSE],
   ai |-> InitAI,
   startButtonBounds |-> FALSE,
   restartButtonBounds |-> FALSE]

\* KeyboardController.update
KeyboardControllerUpdate(keys) ==
  IF keys.ArrowUp THEN "up" ELSE IF keys.ArrowDown THEN "down" ELSE "null"

\* baseDelay of AIController.update
baseDelay ==
  DAdd(DInt(minReactionTime),
       DMul(DSub(DInt(1), skill), DInt(maxReactionTime - minReactionTime)))

\* reactionDelay, in ms, for the value random of Math.random()
ReactionDelay(random) ==
  DMax(DZero, DAdd(baseDelay, DMul(DMul(DSub(random, Half), Dec(16, 10)), baseDelay)))

\* targetVelocity of AIController.update for a paddle whose centre is
\* distance away from the target
TargetVelocity(distance) ==
  IF DLess(DAbs(distance), DInt(2)) THEN DZero
  ELSE LET direction == IF DLess(DZero, distance) THEN DInt(1) ELSE DInt(-1)
           distanceFactor == DMin(DInt(1), DDiv(DAbs(distance), 20))
       IN  DMul(DMul(direction, PADDLE_SPEED), distanceFactor)

\* aiMaxSpeed of AIController.update: 95% of the paddle speed
aiMaxSpeed == DMul(PADDLE_SPEED, Dec(95, 100))

\* ball.vy > 0 ? 1 : (ball.vy < 0 ? -1 : 0)
DirectionOf(vy) == DCmp(vy, DZero)

\* the ball's vertical direction is another one than the last, and not 0
DirectionChanged(ai, ball) ==
  DirectionOf(ball.vy) # ai.lastDirection /\ DirectionOf(ball.vy) # 0

\* the first part of AIController.update at time t: the target, the start
\* of a reaction, and the direction
Noticed(ai, ball, t, random) ==
  [ai EXCEPT !.targetY = ball.y,
             !.reacting = IF DirectionChanged(ai, ball) THEN TRUE ELSE @,
             !.directionChangeTime = IF DirectionChanged(ai, ball) THEN t ELSE @,
             !.reactionDelay = IF DirectionChanged(ai, ball) THEN ReactionDelay(random) ELSE @,
             !.lastDirection = DirectionOf(ball.vy)]

\* this.targetY - paddleCenterY
Distance(ai, paddle) ==
  DSub(ai.targetY, DAdd(paddle.y, DDiv(DInt(PADDLE_HEIGHT), 2)))

\* currentVelocity after the interpolation towards targetVelocity
Smoothed(ai, paddle) ==
  DAdd(ai.currentVelocity,
       DMul(DSub(TargetVelocity(Distance(ai, paddle)), ai.currentVelocity),
            smoothingFactor))

\* Math.max(-aiMaxSpeed, Math.min(aiMaxSpeed, velocity))
Limited(velocity) == DMax(DNeg(aiMaxSpeed), DMin(aiMaxSpeed, velocity))

\* the end of AIController.update: the reaction is over, and the paddle
\* moves by the new velocity
Accelerated(ai, paddle, velocity) ==
  [ai |-> [ai EXCEPT !.reacting = FALSE, !.currentVelocity = velocity],
   paddle |-> [paddle EXCEPT !.y = DAdd(@, velocity)]]

\* the second part of AIController.update at time t: the paddle moves by the
\* velocity it has while the reaction lasts, and by a new one after it
Reacted(ai, paddle, t) ==
  IF ai.reacting /\ DLess(DInt(t - ai.directionChangeTime), ai.reactionDelay)
  THEN [ai |-> ai, paddle |-> [paddle EXCEPT !.y = DAdd(@, ai.currentVelocity)]]
  ELSE Accelerated(ai, paddle, Limited(Smoothed(ai, paddle)))

\* AIController.update(paddle, ball) at time t: the controller and the paddle
\* it leaves
AIControllerUpdate(ai, paddle, ball, t, random) ==
  Reacted(Noticed(ai, ball, t, random), paddle, t)

\* if (paddle.y < 1) paddle.y = 1
KeptBelowTop(paddle) ==
  IF DLess(paddle.y, DInt(1)) THEN [paddle EXCEPT !.y = DInt(1)] ELSE paddle

\* if (paddle.y + paddle.height > this.height - 1) ...
KeptAboveBottom(paddle) ==
  IF DLess(DInt(height - 1), DAdd(paddle.y, DInt(PADDLE_HEIGHT)))
  THEN [paddle EXCEPT !.y = DInt(height - 1 - PADDLE_HEIGHT)]
  ELSE paddle

\* variant: a paddle kept below the top wall only
constrainPaddleTopOnly(paddle) == KeptBelowTop(paddle)

\* the end of updatePaddle: the paddle kept between the walls
constrainPaddle(paddle) == KeptAboveBottom(KeptBelowTop(paddle))

\* updatePaddle(leftPaddle, leftController)
updatePaddleKeyboard(paddle, keys) ==
  LET direction == KeyboardControllerUpdate(keys)
  IN  constrainPaddle(
        IF direction = "up" THEN [paddle EXCEPT !.y = DSub(@, PADDLE_SPEED)]
        ELSE IF direction = "down" THEN [paddle EXCEPT !.y = DAdd(@, PADDLE_SPEED)]
        ELSE paddle)

\* the controller and the paddle that the controller's update left, with the
\* paddle kept between the walls
Constrained(r) == [ai |-> r.ai, paddle |-> constrainPaddle(r.paddle)]

\* updatePaddle(rightPaddle, rightController): the controller and the paddle
updatePaddleAI(ai, paddle, ball, t, random) ==
  Constrained(AIControllerUpdate(ai, paddle, ball, t, random))

\* checkPaddleCollision(paddle) for the paddle at column paddleX: the ball
\* and the value returned
checkPaddleCollision(ball, paddle, paddleX) ==
  IF /\ DLeq(DInt(paddleX), ball.x)
     /\ DLess(ball.x, DInt(paddleX + PADDLE_WIDTH))
     /\ DLeq(paddle.y, ball.y)
     /\ DLess(ball.y, DAdd(paddle.y, DInt(PADDLE_HEIGHT)))
  THEN LET hitPos == DDiv(DSub(ball.y, paddle.y), PADDLE_HEIGHT)
           vx == DNeg(ball.vx)
           angle == DMul(DSub(hitPos, Half), DInt(2))
           vy == DMul(DMul(angle, BALL_SPEED), Dec(8, 10))
           minVx == IF DLess(DAbs(vx), Half)
                    THEN (IF DLess(DZero, vx) THEN Half ELSE DNeg(Half))
                    ELSE vx
       IN  [ball |-> [ball EXCEPT !.vx = minVx, !.vy = vy], hit |-> TRUE]
  ELSE [ball |-> ball, hit |-> FALSE]

\* the values of Math.random() drawn in the model: 0 and 0.5, and 0.9999 for
\* the side and for the delay
RandomValues == {DZero, Half}
RandomHigh == Dec(9999, 10000)

\* Math.cos(angle) and Math.sin(angle) of resetBall() for the angle
\* Math.atan2(0.7, 1.0) + (random - 0.5) * (10 * Math.PI / 180) that the
\* value random gives: 0.8660950322893857 and 0.49987938049458297 for 0,
\* 0.8192319205190405 and 0.5734623443633283 for 0.5
AngleCos(random) ==
  CASE random = DZero -> Dbl(FALSE, <<9910, 14196, 12494, 1773>>, -53)
    [] random = Half -> Dbl(FALSE, <<15965, 12603, 12893, 1677>>, -53)

AngleSin(random) ==
  CASE random = DZero -> Dbl(FALSE, <<4217, 5931, 8289, 2047>>, -54)
    [] random = Half -> Dbl(FALSE, <<9537, 3907, 7387, 1174>>, -53)

\* the values resetBall (speed, angle, side) and AIController.update (delay)
\* draw from Math.random(): speed and angle both v, the delay 0 with the
\* low v and 0.9999 with the other, for either side
Random(v, side) ==
  [speed |-> v, angle |-> v, side |-> side,
   delay |-> IF v = DZero THEN DZero ELSE RandomHigh]

RandomArgs == {Random(v, side) : v \in RandomValues, side \in {DZero, RandomHigh}}

\* resetBall()
resetBall(ball, random) ==
  LET speedVariation == DAdd(DInt(1), DMul(DSub(random.speed, Half), Dec(1, 10)))
      baseSpeed == DMul(BALL_SPEED, speedVariation)
      horizontalDir == IF DLess(Half, random.side) THEN DInt(1) ELSE DInt(-1)
  IN  [x |-> CentreX,
       y |-> CentreY,
       vx |-> DMul(DMul(horizontalDir, baseSpeed), AngleCos(random.angle)),
       vy |-> DMul(baseSpeed, AngleSin(random.angle))]

\* ball.x += ball.vx; ball.y += ball.vy
MoveBall(ball) == [ball EXCEPT !.x = DAdd(@, ball.vx), !.y = DAdd(@, ball.vy)]

\* if (this.ball.y <= 1) ...
BounceOffTop(ball) ==
  IF DLeq(ball.y, DInt(1)) THEN [ball EXCEPT !.y = DInt(1), !.vy = DNeg(@)] ELSE ball

\* if (this.ball.y >= this.height - 2) ...
BounceOffBottom(ball) ==
  IF DLeq(DInt(height - 2), ball.y)
  THEN [ball EXCEPT !.y = DInt(height - 2), !.vy = DNeg(@)]
  ELSE ball

\* the two wall tests of updateBall()
BounceOffWalls(ball) == BounceOffBottom(BounceOffTop(ball))

\* the ball after both calls of checkPaddleCollision, and the paddles hit
HitBoth(left, right) ==
  [ball |-> right.ball,
   hits |-> IF left.hit /\ right.hit THEN "both"
            ELSE IF left.hit THEN "left"
            ELSE IF right.hit THEN "right"
            ELSE "none"]

\* the second call of checkPaddleCollision, after the first returned left
HitRight(left, g) ==
  HitBoth(left, checkPaddleCollision(left.ball, g.rightPaddle, PADDLE_RIGHT_X))

\* the two calls of checkPaddleCollision in updateBall(): the ball and the
\* paddles hit
HitPaddles(ball, g) ==
  HitRight(checkPaddleCollision(ball, g.leftPaddle, PADDLE_LEFT_X), g)

\* variant: the goal tests of an updateBall() that counts a goal twice
CheckGoalsCountsTwice(g, h, random) ==
  IF DLess(h.ball.x, DZero)
  THEN [game |-> [g EXCEPT !.score.right = @ + 2, !.ball = resetBall(h.ball, random)],
        hits |-> h.hits, goal |-> "right"]
  ELSE IF DLeq(DInt(width), h.ball.x)
  THEN [game |-> [g EXCEPT !.score.left = @ + 2, !.ball = resetBall(h.ball, random)],
        hits |-> h.hits, goal |-> "left"]
  ELSE [game |-> [g EXCEPT !.ball = h.ball], hits |-> h.hits, goal |-> "none"]

\* the goal tests of updateBall(), for the ball and the hits h that the
\* paddle tests left
CheckGoals(g, h, random) ==
  IF DLess(h.ball.x, DZero)
  THEN [game |-> [g EXCEPT !.score.right = @ + 1, !.ball = resetBall(h.ball, random)],
        hits |-> h.hits, goal |-> "right"]
  ELSE IF DLeq(DInt(width), h.ball.x)
  THEN [game |-> [g EXCEPT !.score.left = @ + 1, !.ball = resetBall(h.ball, random)],
        hits |-> h.hits, goal |-> "left"]
  ELSE [game |-> [g EXCEPT !.ball = h.ball], hits |-> h.hits, goal |-> "none"]

\* variant: an updateBall() that counts a goal twice
updateBallCountsTwice(g, random) ==
  CheckGoalsCountsTwice(g, HitPaddles(BounceOffWalls(MoveBall(g.ball)), g), random)

\* variant: an updateBall() without the test of the bottom wall
updateBallNoBottomWall(g, random) ==
  CheckGoals(g, HitPaddles(BounceOffTop(MoveBall(g.ball)), g), random)

\* updateBall(): the game, the paddles hit and the side that scored
updateBall(g, random) ==
  CheckGoals(g, HitPaddles(BounceOffWalls(MoveBall(g.ball)), g), random)

\* variant: a game end that leaves the ball its velocity
checkGameEndKeepsVelocity(g, t) ==
  IF g.score.left >= GOALS_TO_WIN
  THEN [g EXCEPT !.winner = "left", !.gameState = "GAME_OVER", !.gameOverStartTime = t]
  ELSE IF g.score.right >= GOALS_TO_WIN
  THEN [g EXCEPT !.winner = "right", !.gameState = "GAME_OVER", !.gameOverStartTime = t]
  ELSE g

\* checkGameEnd()
checkGameEnd(g, t) ==
  IF g.score.left >= GOALS_TO_WIN
  THEN [g EXCEPT !.winner = "left", !.gameState = "GAME_OVER", !.gameOverStartTime = t,
                 !.ball.vx = DZero, !.ball.vy = DZero]
  ELSE IF g.score.right >= GOALS_TO_WIN
  THEN [g EXCEPT !.winner = "right", !.gameState = "GAME_OVER", !.gameOverStartTime = t,
                 !.ball.vx = DZero, !.ball.vy = DZero]
  ELSE g

\* goToMenu()
goToMenu(g) == [g EXCEPT !.gameState = "MENU", !.winner = "null", !.gameOverStartTime = 0]

\* startNewGame()
startNewGame(g, t) ==
  [g EXCEPT !.score = [left |-> 0, right |-> 0],
            !.leftPaddle.y = PaddleStartY,
            !.rightPaddle.y = PaddleStartY,
            !.ball = [x |-> CentreX, y |-> CentreY, vx |-> DZero, vy |-> DZero],
            !.gameState = "COUNTDOWN",
            !.countdownNumber = 3,
            !.countdownStartTime = t,
            !.winner = "null",
            !.gameOverStartTime = 0]

\* the game objects pauseGame() saves
SavedState(g) ==
  [ball |-> g.ball, leftPaddle |-> g.leftPaddle, rightPaddle |-> g.rightPaddle,
   score |-> g.score]

\* pauseGame()
pauseGame(g) == [g EXCEPT !.savedState = <<SavedState(g)>>, !.gameState = "PAUSED"]

\* unpauseGame()
unpauseGame(g, t) ==
  LET restored == IF g.savedState # <<>>
                  THEN [g EXCEPT !.ball = g.savedState[1].ball,
                                 !.leftPaddle = g.savedState[1].leftPaddle,
                                 !.rightPaddle = g.savedState[1].rightPaddle,
                                 !.score = g.savedState[1].score]
                  ELSE g
  IN  [restored EXCEPT !.resumingFromPause = TRUE,
                       !.gameState = "COUNTDOWN",
                       !.countdownNumber = 3,
                       !.countdownStartTime = t,
                       !.savedState = <<>>]

\* variant: a countdown that resets the ball whenever it ends
drawCountdownAlwaysResets(g, t, random) ==
  IF t - g.countdownStartTime >= countdownDuration
  THEN LET next == [g EXCEPT !.countdownNumber = @ - 1, !.countdownStartTime = t]
       IN  IF next.countdownNumber < 1
           THEN [next EXCEPT !.gameState = "PLAYING",
                             !.ball = resetBall(next.ball, random),
                             !.resumingFromPause = FALSE]
           ELSE next
  ELSE g

\* variant: a countdown that keeps its start time from number to number
drawCountdownKeepsStartTime(g, t, random) ==
  IF t - g.countdownStartTime >= countdownDuration
  THEN LET next == [g EXCEPT !.countdownNumber = @ - 1]
       IN  IF next.countdownNumber < 1
           THEN [next EXCEPT !.gameState = "PLAYING",
                             !.ball = IF ~next.resumingFromPause
                                      THEN resetBall(next.ball, random)
                                      ELSE next.ball,
                             !.resumingFromPause = FALSE]
           ELSE next
  ELSE g

\* drawCountdown(), called by updateCountdown()
drawCountdown(g, t, random) ==
  IF t - g.countdownStartTime >= countdownDuration
  THEN LET next == [g EXCEPT !.countdownNumber = @ - 1, !.countdownStartTime = t]
       IN  IF next.countdownNumber < 1
           THEN [next EXCEPT !.gameState = "PLAYING",
                             !.ball = IF ~next.resumingFromPause
                                      THEN resetBall(next.ball, random)
                                      ELSE next.ball,
                             !.resumingFromPause = FALSE]
           ELSE next
  ELSE g

\* the game with the paddles that the two calls of updatePaddle left
PaddlesMoved(g, left, right) ==
  [g EXCEPT !.leftPaddle = left, !.rightPaddle = right.paddle, !.ai = right.ai]

\* the end of update() in state PLAYING, after updateBall() returned b
GameEndChecked(b, t) == [game |-> checkGameEnd(b.game, t), hits |-> b.hits, goal |-> b.goal]

\* update() in state PLAYING
updatePlaying(g, t, random) ==
  GameEndChecked(
    updateBall(PaddlesMoved(g, updatePaddleKeyboard(g.leftPaddle, g.keys),
                            updatePaddleAI(g.ai, g.rightPaddle, g.ball, t, random.delay)),
               random),
    t)

\* variant: an update() that goes on moving the ball while the game is paused
updateMovesBallWhilePaused(g, t, random) ==
  IF g.gameState = "MENU"
  THEN [game |-> [g EXCEPT !.startButtonBounds = TRUE], hits |-> "none", goal |-> "none"]
  ELSE IF g.gameState = "COUNTDOWN"
  THEN [game |-> drawCountdown(g, t, random), hits |-> "none", goal |-> "none"]
  ELSE IF g.gameState = "PAUSED"
  THEN [game |-> [g EXCEPT !.ball = MoveBall(g.ball)], hits |-> "none", goal |-> "none"]
  ELSE IF g.gameState = "GAME_OVER"
  THEN [game |-> [g EXCEPT !.restartButtonBounds = TRUE], hits |-> "none", goal |-> "none"]
  ELSE updatePlaying(g, t, random)

\* update() at time t: the game, and in state PLAYING the paddles the ball
\* hit and the side that scored
update(g, t, random) ==
  IF g.gameState = "MENU"
  THEN [game |-> [g EXCEPT !.startButtonBounds = TRUE], hits |-> "none", goal |-> "none"]
  ELSE IF g.gameState = "COUNTDOWN"
  THEN [game |-> drawCountdown(g, t, random), hits |-> "none", goal |-> "none"]
  ELSE IF g.gameState = "PAUSED"
  THEN [game |-> g, hits |-> "none", goal |-> "none"]
  ELSE IF g.gameState = "GAME_OVER"
  THEN [game |-> [g EXCEPT !.restartButtonBounds = TRUE], hits |-> "none", goal |-> "none"]
  ELSE updatePlaying(g, t, random)

\* the values of e.key the keydown listeners compare with
ArrowKeys == {"ArrowUp", "ArrowDown"}
PauseKeys == {"p", "P"}
WinKeys == {"w", "W"}
LoseKeys == {"l", "L"}
Keys == ArrowKeys \cup PauseKeys \cup {"Enter"} \cup WinKeys \cup LoseKeys

\* the values of e.keyCode they compare with: the Enter key and the P key
EnterKeyCode == 13
PauseKeyCode == 80

\* e.keyCode of the keydown event of a key of the keyboard
KeyCodeOf(key) ==
  IF key = "Enter" THEN EnterKeyCode
  ELSE IF key \in PauseKeys THEN PauseKeyCode
  ELSE IF key \in WinKeys THEN 87
  ELSE IF key \in LoseKeys THEN 76
  ELSE IF key = "ArrowUp" THEN 38
  ELSE 40

\* a keydown event: e.key and e.keyCode
KeyEvent(key) == [key |-> key, keyCode |-> KeyCodeOf(key)]

\* the events of a key that reports no e.key the listeners know, only the
\* code of the Enter key or of the P key
CodeEvent(keyCode) == [key |-> "Unidentified", keyCode |-> keyCode]

KeyEvents ==
  {KeyEvent(key) : key \in Keys} \cup {CodeEvent(EnterKeyCode), CodeEvent(PauseKeyCode)}

\* the events the listeners take for the Enter key and for the P key
IsEnter(e) == e.key = "Enter" \/ e.keyCode = EnterKeyCode
IsPause(e) == e.key \in PauseKeys \/ e.keyCode = PauseKeyCode

\* the keydown listener of KeyboardController
keydownController(g, e) ==
  IF e.key \in ArrowKeys THEN [g EXCEPT !.keys[e.key] = TRUE] ELSE g

\* the keydown listener of setupClickHandler, at time t
keydownClickHandler(g, e, t) ==
  IF IsEnter(e)
  THEN (IF g.gameState = "MENU" THEN startNewGame(g, t)
        ELSE IF g.gameState = "GAME_OVER" THEN goToMenu(g)
        ELSE g)
  ELSE IF e.key \in WinKeys /\ g.gameState = "MENU"
  THEN [g EXCEPT !.gameState = "GAME_OVER", !.winner = "left", !.gameOverStartTime = t]
  ELSE IF e.key \in LoseKeys /\ g.gameState = "MENU"
  THEN [g EXCEPT !.gameState = "GAME_OVER", !.winner = "right", !.gameOverStartTime = t]
  ELSE g

\* the keydown listener of setupPauseHandler, at time t
keydownPauseHandler(g, e, t) ==
  IF IsPause(e)
  THEN (IF g.gameState = "PLAYING" THEN pauseGame(g)
        ELSE IF g.gameState = "PAUSED" THEN unpauseGame(g, t)
        ELSE g)
  ELSE g

\* a keydown event at time t: the document runs the three listeners in the
\* order in which the constructor registered them
keydown(g, e, t) ==
  keydownPauseHandler(keydownClickHandler(keydownController(g, e), e, t), e, t)

\* a keyup event: the listener of KeyboardController
keyup(g, key) == IF key \in ArrowKeys THEN [g EXCEPT !.keys[key] = FALSE] ELSE g

\* the 20 x 20 rectangles drawStartArrow and drawRestartArrow store
buttonSize == 20
StartButtonX == ((width \div 2) \div 2) - buttonSize \div 2
RestartButtonX == (width \div 2) + ((width - width \div 2) \div 2) - buttonSize \div 2
ButtonY == (height \div 2) - buttonSize \div 2

InButton(buttonX, pixelX, pixelY) ==
  /\ pixelX >= buttonX /\ pixelX < buttonX + buttonSize
  /\ pixelY >= ButtonY /\ pixelY < ButtonY + buttonSize

\* checkButtonClick(pixelX, pixelY) at time t
checkButtonClick(g, pixelX, pixelY, t) ==
  IF g.gameState = "MENU" /\ g.startButtonBounds
  THEN (IF InButton(StartButtonX, pixelX, pixelY) THEN startNewGame(g, t) ELSE g)
  ELSE IF g.gameState = "GAME_OVER" /\ g.restartButtonBounds
  THEN (IF InButton(RestartButtonX, pixelX, pixelY) THEN goToMenu(g) ELSE g)
  ELSE g

(***************************************************************************)
(* The render loop: start() and stop() and the callback renderLoop that    *)
(* start() hands to requestAnimationFrame.  pending is the set of handles  *)
(* of the callbacks requested and neither run nor cancelled; the browser   *)
(* numbers its handles from 1 on, nextId being the next one it gives out.  *)
(***************************************************************************)
null == 0     \* animationFrameId when no callback was requested

InitLoop == [isRunning |-> FALSE, animationFrameId |-> null, pending |-> {}, nextId |-> 1]

requestAnimationFrame(l) ==
  [l EXCEPT !.animationFrameId = l.nextId,
            !.pending = @ \cup {l.nextId},
            !.nextId = @ + 1]

cancelAnimationFrame(l, id) == [l EXCEPT !.pending = @ \ {id}]

\* variant: a start() that does not test the flag
startTwice(l) ==
  [loop |-> requestAnimationFrame([l EXCEPT !.isRunning = TRUE]), rendered |-> TRUE]

\* start(): the loop it leaves, and whether it rendered a frame
start(l) ==
  IF l.isRunning THEN [loop |-> l, rendered |-> FALSE]
  ELSE [loop |-> requestAnimationFrame([l EXCEPT !.isRunning = TRUE]), rendered |-> TRUE]

\* variant: a callback that does not test the flag
renderLoopIgnoresFlag(l, id) ==
  [loop |-> requestAnimationFrame(cancelAnimationFrame(l, id)), rendered |-> TRUE]

\* the callback of handle id, run by the browser
renderLoop(l, id) ==
  LET run == cancelAnimationFrame(l, id)
  IN  IF ~run.isRunning THEN [loop |-> run, rendered |-> FALSE]
      ELSE [loop |-> requestAnimationFrame(run), rendered |-> TRUE]

\* variant: a stop() that leaves the requested callback with the browser
stopKeepsCallback(l) == [l EXCEPT !.isRunning = FALSE, !.animationFrameId = null]

\* variant: a stop() that leaves the flag set
stopKeepsFlag(l) ==
  IF l.animationFrameId # null
  THEN [cancelAnimationFrame(l, l.animationFrameId) EXCEPT !.animationFrameId = null]
  ELSE l

stop(l) ==
  LET off == [l EXCEPT !.isRunning = FALSE]
  IN  IF off.animationFrameId # null
      THEN [cancelAnimationFrame(off, off.animationFrameId) EXCEPT !.animationFrameId = null]
      ELSE off

(***************************************************************************)
(* The calls.  Each action is one call of the API made when the clock      *)
(* reads now; Tick is time passing between two calls.  lastCall records    *)
(* which step was taken last, whether its coordinates were inside the      *)
(* grid, whether it threw, and the draw calls it issued.                   *)
(***************************************************************************)
Call(op, inside, threw, draws) ==
  [op |-> op, inside |-> inside, threw |-> threw, draws |-> draws]

InGrid(x, y) == x \in Cols /\ y \in Rows

(***************************************************************************)
(* The court on the game's display.  Of the display's cells the model      *)
(* keeps the court cells: the two walls and the dashed line.  A drawing    *)
(* call is a record [off, cleared]: the court cells that are OFF, and the  *)
(* court cells that were switched off at some point since the handler      *)
(* began.  The court record adds the fields update() keeps for clearing:   *)
(* prevLeftPaddleY, prevRightPaddleY, prevBallX, prevBallY.  drawNumber    *)
(* and drawCurrentFrame switch their cells ON.  The title, the arrows, the *)
(* messages and the pause bars are not drawn in the model: a court cell    *)
(* they draw on is ON already unless a clearing routine switched it off,   *)
(* and then the model keeps it OFF.                                        *)
(***************************************************************************)
midX == width \div 2

CourtCells ==
  {<<midX, y>> : y \in {r \in 0 .. height - 1 : r % 2 = 0}}
    \cup {<<x, 0>> : x \in 0 .. width - 1}
    \cup {<<x, height - 1>> : x \in 0 .. width - 1}

\* the test px >= 0 && px < this.width && py >= 0 && py < this.height
OnDisplay(x, y) == x >= 0 /\ x < width /\ y >= 0 /\ y < height

\* setPixel(c, false) and setPixel(c, true) on the game's display
SwitchOff(d, cells) ==
  [off |-> d.off \cup (cells \cap CourtCells),
   cleared |-> d.cleared \cup (cells \cap CourtCells)]

SwitchOn(d, cells) == IF d.off = {} THEN d ELSE [d EXCEPT !.off = @ \ cells]

\* the test that guards setPixel(px, py, false) in the clearing loops
NotCourt(c) == c[1] # midX /\ c[2] # 0 /\ c[2] # height - 1

\* a clearing loop over the columns x0 .. x1 - 1 and the rows y0 .. y1 - 1
ClearArea(d, x0, x1, y0, y1) ==
  SwitchOff(d, {c \in CourtCells : /\ c[1] \in x0 .. x1 - 1
                                   /\ c[2] \in y0 .. y1 - 1
                                   /\ NotCourt(c)})

\* the values of the loop variable of for (let s = 0; s < scale; s++)
ScaleSteps(scale) == {s \in 0 .. DFloor(scale) : DLess(DInt(s), scale)}

\* Math.floor(x + col * scale + sx)
ScaledCell(x, col, scale, sx) ==
  DFloor(DAdd(DAdd(DInt(x), DMul(DInt(col), scale)), DInt(sx)))

\* the 1 bits of a digit of the font, as <<row, col>> counted from 0
FontBits(digit) ==
  {b \in (0 .. 6) \X (0 .. 4) : PIXEL_FONT[digit][b[1] + 1][b[2] + 1] = 1}

\* the cells drawNumber(x, y, digit, scale) passes to setPixel
NumberCells(x, y, digit, scale) ==
  {c \in UNION {{<<ScaledCell(x, b[2], scale, sx), ScaledCell(y, b[1], scale, sy)>> :
                   sx \in ScaleSteps(scale), sy \in ScaleSteps(scale)} :
                b \in FontBits(digit)} :
     OnDisplay(c[1], c[2])}

\* drawNumber(x, y, digit, scale)
drawNumber(d, x, y, digit, scale) ==
  IF digit \notin DOMAIN PIXEL_FONT THEN d
  ELSE SwitchOn(d, NumberCells(x, y, digit, scale))

\* drawScore(x, y, score): the 5 x 7 cells cleared, then the digit drawn
drawScore(d, x, y, score) ==
  drawNumber(ClearArea(d, x, x + 5, y, y + 7), x, y, score, DInt(1))

\* updateScores()
updateScores(d, score) ==
  drawScore(drawScore(d, 2, 2, score.left), width - 7, 2, score.right)

\* drawCourt() and maintainCourt(): the dashed line, the walls, the scores
maintainCourt(d, score) == updateScores(SwitchOn(d, CourtCells), score)

\* clearCountdownArea(): the guarded loop, then the middle column of the
\* area: ON in the even rows, OFF in the odd rows
clearCountdownArea(d) ==
  LET clearSize == 20
      centerX == width \div 2
      centerY == height \div 2
      area == ClearArea(d, centerX - clearSize, centerX + clearSize,
                        centerY - clearSize, centerY + clearSize)
      rows == {py \in centerY - clearSize .. centerY + clearSize - 1 :
                 py >= 0 /\ py < height}
  IN  SwitchOff(SwitchOn(area, {<<midX, py>> : py \in {r \in rows : r % 2 = 0}}),
                {<<midX, py>> : py \in {r \in rows : r % 2 # 0}})

clearPauseArea(d) ==
  LET clearSize == 20
      centerX == width \div 2
      centerY == height \div 2
  IN  ClearArea(d, centerX - clearSize, centerX + clearSize,
                centerY - clearSize, centerY + clearSize)

\* clearGameOverArea(): the guarded loop, which also spares the cells next
\* to the restart button
clearGameOverArea(d) ==
  LET centerX == width \div 2
      centerY == height \div 2
      clearWidth == 70
      clearHeight == 20
      buttonPadding == 30
  IN  SwitchOff(d, {c \in CourtCells :
                      /\ c[1] \in centerX - clearWidth .. centerX + clearWidth - 1
                      /\ c[2] \in centerY - clearHeight .. centerY + clearHeight - 1
                      /\ NotCourt(c)
                      /\ ~(/\ c[1] > width - buttonPadding
                           /\ c[2] > centerY - 25
                           /\ c[2] < centerY + 25)})

\* clearStartArrowArea() and clearRestartArrowArea(): the button and 5 cells
\* around it
clearStartArrowArea(d) ==
  LET padding == 5
  IN  ClearArea(d, StartButtonX - padding, StartButtonX + buttonSize + padding,
                ButtonY - padding, ButtonY + buttonSize + padding)

clearRestartArrowArea(d) ==
  LET padding == 5
  IN  ClearArea(d, RestartButtonX - padding, RestartButtonX + buttonSize + padding,
                ButtonY - padding, ButtonY + buttonSize + padding)

\* clearButtonFrame(buttonX, buttonY, buttonSize): the border of the button
clearButtonFrame(d, buttonX) ==
  LET padding == 1
  IN  SwitchOff(d, {c \in CourtCells :
                      /\ c[1] \in buttonX - padding .. buttonX + buttonSize + padding - 1
                      /\ c[2] \in ButtonY - padding .. ButtonY + buttonSize + padding - 1
                      /\ \/ c[1] < buttonX
                         \/ c[1] >= buttonX + buttonSize
                         \/ c[2] < ButtonY
                         \/ c[2] >= ButtonY + buttonSize
                      /\ NotCourt(c)})

\* clearPongTitleArea(): 50 cells around the title's previous position,
\* wherever on the display that is
clearPongTitleArea(d) == ClearArea(d, 0, width, 0, height)

clearMenuArea(d) == clearStartArrowArea(clearPongTitleArea(d))

\* drawMenu(): the bouncing title and the start arrow in its blinking frame
drawMenu(d) ==
  clearButtonFrame(clearStartArrowArea(clearPongTitleArea(d)), StartButtonX)

\* drawGameOver(): the message and the restart arrow in its blinking frame
drawGameOver(d) ==
  clearButtonFrame(clearRestartArrowArea(clearGameOverArea(d)), RestartButtonX)

\* the ball's previous cell
PrevBallCell(c) == <<DFloor(c.prevBallX), DFloor(c.prevBallY)>>

\* the cells of the court that the clearing of one ball cell leaves switched
\* on again: a cell of the middle column in an even row, or else a wall cell
RedrawnAfterBall(c) ==
  IF c[1] = midX
  THEN (IF c[2] % 2 = 0 THEN {c} ELSE {})
  ELSE IF c[2] = 0 \/ c[2] = height - 1 THEN {c} ELSE {}

\* the two paddle loops of clearPreviousFrame()
ClearPaddles(d, c) ==
  ClearArea(ClearArea(d, PADDLE_LEFT_X, PADDLE_LEFT_X + PADDLE_WIDTH,
                      c.prevLeftPaddleY, c.prevLeftPaddleY + PADDLE_HEIGHT),
            PADDLE_RIGHT_X, PADDLE_RIGHT_X + PADDLE_WIDTH,
            c.prevRightPaddleY, c.prevRightPaddleY + PADDLE_HEIGHT)

\* variant: the ball's previous cell switched off and not redrawn
ClearBallWithoutRedraw(d, cell) ==
  IF OnDisplay(cell[1], cell[2]) THEN SwitchOff(d, {cell}) ELSE d

\* the ball's previous cell switched off, and on again if it is a court cell
ClearBall(d, cell) ==
  IF OnDisplay(cell[1], cell[2])
  THEN SwitchOn(SwitchOff(d, {cell}), RedrawnAfterBall(cell))
  ELSE d

\* variant: a clearPreviousFrame() that redraws no court cell
clearPreviousFrameWithoutRedraw(d, c, score) ==
  updateScores(ClearBallWithoutRedraw(ClearPaddles(d, c), PrevBallCell(c)), score)

\* clearPreviousFrame(): the paddles' previous cells (guarded), the ball's
\* previous cell, which is switched on again if it is a court cell, and the
\* scores
clearPreviousFrame(d, c, score) ==
  updateScores(ClearBall(ClearPaddles(d, c), PrevBallCell(c)), score)

\* the cells drawCurrentFrame() passes to setPixel: the paddles, the ball
CurrentCells(g) ==
  {c \in {<<PADDLE_LEFT_X + px, DFloor(DAdd(g.leftPaddle.y, DInt(py)))>> :
            px \in 0 .. PADDLE_WIDTH - 1, py \in 0 .. PADDLE_HEIGHT - 1}
         \cup {<<PADDLE_RIGHT_X + px, DFloor(DAdd(g.rightPaddle.y, DInt(py)))>> :
                 px \in 0 .. PADDLE_WIDTH - 1, py \in 0 .. PADDLE_HEIGHT - 1}
         \cup {<<DFloor(g.ball.x), DFloor(g.ball.y)>>} :
     OnDisplay(c[1], c[2])}

\* drawCurrentFrame()
drawCurrentFrame(d, g) == SwitchOn(d, CurrentCells(g))

\* drawPauseButton(): the area cleared; the two bars are drawn outside the
\* court cells (px !== midX && py !== 0 && py !== height - 1)
drawPauseButton(d) == clearPauseArea(d)

\* the drawing of a handler begins: nothing switched off in it yet
Drawing(c) == [off |-> c.off, cleared |-> {}]

\* the court when the drawing d of a handler is done
Drawn(d, c) == [c EXCEPT !.off = d.off, !.cleared = d.cleared]

\* the court with the drawing d and the previous positions update() stores
\* at the end of a frame in PLAYING
Stored(d, g) ==
  [off |-> d.off, cleared |-> d.cleared,
   prevLeftPaddleY |-> DFloor(g.leftPaddle.y),
   prevRightPaddleY |-> DFloor(g.rightPaddle.y),
   prevBallX |-> g.ball.x,
   prevBallY |-> g.ball.y]

\* the court after the constructor, which ends with drawCourt()
InitCourt(g) == Stored(maintainCourt([off |-> CourtCells, cleared |-> {}], g.score), g)

\* 1.0 - (bounce * bounce * 0.2)
Bounced(bounce) == DSub(DInt(1), DMul(DMul(bounce, bounce), Dec(2, 10)))

\* scale of drawCountdown() for progress = elapsed / countdownDuration
ScaleAt(progress) ==
  IF DLess(progress, Half)
  THEN DSub(DInt(2), DMul(progress, DInt(2)))
  ELSE Bounced(DMul(DSub(progress, Half), DInt(2)))

\* scale of drawCountdown() when elapsed ms of the number's time are over
CountdownScale(elapsed) == ScaleAt(DDiv(DInt(elapsed), countdownDuration))

\* the number of drawCountdown(), drawn at the scale so that its centre is
\* the centre of the display
drawCountdownNumber(d, number, scale) ==
  drawNumber(d, width \div 2 - DFloor(DDiv(DMul(DInt(5), scale), 2)),
             height \div 2 - DFloor(DDiv(DMul(DInt(7), scale), 2)), number, scale)

\* drawCountdown() after its first clearCountdownArea(), when elapsed ms of
\* the number's time are over and it takes the game to h: the area cleared
\* once more if the time is over, and once more if that was the last
\* number; else the number, scaled
drawCountdownFrom(d, h, elapsed) ==
  IF h.gameState = "PLAYING"
  THEN clearCountdownArea(IF elapsed >= countdownDuration THEN clearCountdownArea(d) ELSE d)
  ELSE drawCountdownNumber(IF elapsed >= countdownDuration THEN clearCountdownArea(d) ELSE d,
                           h.countdownNumber, CountdownScale(elapsed))

\* what drawCountdown() draws at time t when it takes the game from g to h
drawCountdownCourt(g, h, t, d) ==
  drawCountdownFrom(clearCountdownArea(d), h, t - g.countdownStartTime)

\* what update() draws in PLAYING when it takes the game from g to h, after
\* maintainCourt(): the scores if a side scored, the previous frame cleared,
\* the new one drawn
drawPlaying(g, h, c, d) ==
  drawCurrentFrame(
    clearPreviousFrame(IF h.score # g.score THEN updateScores(d, h.score) ELSE d,
                       c, h.score),
    h)

\* what update() draws at time t when it takes the game from g to h, after
\* maintainCourt() left the drawing d, and the previous positions it stores
updateDrawn(g, h, c, t, d) ==
  IF g.gameState = "MENU"
  THEN Drawn(drawMenu(clearPreviousFrame(d, c, g.score)), c)
  ELSE IF g.gameState = "COUNTDOWN"
  THEN Drawn(drawCountdownCourt(g, h, t, d), c)
  ELSE IF g.gameState = "PAUSED"
  THEN Drawn(drawCurrentFrame(drawPauseButton(d), g), c)
  ELSE IF g.gameState = "GAME_OVER"
  THEN Drawn(drawCurrentFrame(drawGameOver(clearPreviousFrame(d, c, g.score)), g), c)
  ELSE Stored(drawPlaying(g, h, c, d), h)

\* what update() draws at time t when it takes the game from g to h, and the
\* previous positions it stores
updateCourt(g, h, c, t) == updateDrawn(g, h, c, t, maintainCourt(Drawing(c), g.score))

\* what goToMenu() and startNewGame() draw
goToMenuCourt(d) == clearPauseArea(clearCountdownArea(clearGameOverArea(d)))

startNewGameCourt(d) ==
  updateScores(clearPauseArea(clearMenuArea(clearCountdownArea(clearGameOverArea(d)))),
               [left |-> 0, right |-> 0])

\* what the button under Enter or under a click draws
buttonCourt(g, c) ==
  IF g.gameState = "MENU"
  THEN Drawn(startNewGameCourt(Drawing(c)), c)
  ELSE IF g.gameState = "GAME_OVER"
  THEN Drawn(goToMenuCourt(clearCountdownArea(clearGameOverArea(Drawing(c)))), c)
  ELSE Drawn(Drawing(c), c)

\* what unpauseGame() draws
unpauseGameCourt(g, d) ==
  IF g.savedState # <<>>
  THEN updateScores(clearPauseArea(d), g.savedState[1].score)
  ELSE clearPauseArea(d)

\* what the listener of setupPauseHandler draws on the court c1 that the
\* listeners before it left, the game being g2
pauseHandlerCourt(g2, e, c1) ==
  IF IsPause(e) /\ g2.gameState = "PAUSED"
  THEN Drawn(unpauseGameCourt(g2, [off |-> c1.off, cleared |-> c1.cleared]), c1)
  ELSE c1

\* what the listener of setupClickHandler draws, the game being g1
clickHandlerCourt(g1, e, c) ==
  IF IsEnter(e) THEN buttonCourt(g1, c) ELSE Drawn(Drawing(c), c)

\* what the keydown listeners draw at time t, one after the other: the
\* listener of setupClickHandler on the game g as the controller's listener
\* leaves it, the listener of setupPauseHandler on the game after that
keydownCourt(g, e, t, c) ==
  pauseHandlerCourt(keydownClickHandler(keydownController(g, e), e, t), e,
                    clickHandlerCourt(keydownController(g, e), e, c))

\* what the click listener draws
checkButtonClickCourt(g, pixelX, pixelY, c) ==
  IF \/ g.gameState = "MENU" /\ g.startButtonBounds
          /\ InButton(StartButtonX, pixelX, pixelY)
     \/ g.gameState = "GAME_OVER" /\ g.restartButtonBounds
          /\ InButton(RestartButtonX, pixelX, pixelY)
  THEN buttonCourt(g, c)
  ELSE Drawn(Drawing(c), c)

\* the degauss fields as one record
Degauss ==
  DegaussState(degaussStartTime, degaussDuration, degaussStrength, lastDegaussEndTime)

SetDegauss(g) ==
  /\ degaussStartTime' = g.degaussStartTime
  /\ degaussDuration' = g.degaussDuration
  /\ degaussStrength' = g.degaussStrength
  /\ lastDegaussEndTime' = g.lastDegaussEndTime

degaussVars == <<degaussStartTime, degaussDuration, degaussStrength, lastDegaussEndTime>>

loopVars == <<loop, stoppedSince>>

gameVars == <<game, court, gameHist>>

\* what the calls on the pixel store leave alone
extVars == <<lastPattern, activeSince, loopVars, gameVars>>

\* the history of the game: keyCode is e.keyCode of the keydown event that
\* was the last step, and -1 after any other step; loaded is whether the
\* page has made its first call of gameLoop(); script is the place in a
\* scripted game, <<>> in any other game
InitHist ==
  [atPause |-> <<>>, countdownFrom |-> "none", hits |-> "none", goal |-> "none",
   over |-> FALSE, countdownSince |-> -1, numberSince |-> -1, keyCode |-> -1,
   loaded |-> FALSE, script |-> <<>>]

\* the display after construction
InitDisplay ==
  /\ pixels = InitPixels
  /\ degaussStartTime = InitDegauss.degaussStartTime
  /\ degaussDuration = InitDegauss.degaussDuration
  /\ degaussStrength = InitDegauss.degaussStrength
  /\ lastDegaussEndTime = InitDegauss.lastDegaussEndTime
  /\ lastCall = Call("new", FALSE, FALSE, <<>>)
  /\ steps = 0
  /\ lastSet = [y \in Rows |-> [x \in Cols |-> FALSE]]
  /\ clearedAt = -1
  /\ lastRunStart = 0
  /\ negligibleStreak = 0
  /\ renderStreak = 0
  /\ lastPattern = <<>>
  /\ activeSince = -1
  /\ loop = InitLoop
  /\ stoppedSince = -1

Init ==
  /\ InitDisplay
  /\ now \in {0, 1}
  /\ game = InitGame
  /\ court = InitCourt(game)
  /\ gameHist = InitHist

\* the clock advances by d between two calls
Advance(d) ==
  /\ now' = now + d
  /\ lastCall' = Call("tick", FALSE, FALSE, <<>>)
  /\ steps' = steps + 1
  /\ renderStreak' = 0
  /\ UNCHANGED <<pixels, degaussVars, lastSet, clearedAt, lastRunStart, negligibleStreak>>
  /\ UNCHANGED extVars

Tick(d) == steps < MaxSteps /\ Advance(d)

SetPixel(x, y, state) ==
  /\ steps < MaxSteps
  /\ LET r == setPixel(pixels, x, y, state, now)
     IN  /\ lastCall' = Call("setPixel", InGrid(x, y), r.threw, <<>>)
         /\ pixels' = r.pixels
  /\ steps' = steps + 1
  /\ renderStreak' = 0
  /\ lastSet' = IF InGrid(x, y) THEN [lastSet EXCEPT ![y][x] = state] ELSE lastSet
  /\ clearedAt' = -1
  /\ UNCHANGED <<now, degaussVars, lastRunStart, negligibleStreak>>
  /\ UNCHANGED extVars

Clear ==
  /\ steps < MaxSteps
  /\ lastCall' = Call("clear", FALSE, FALSE, <<>>)
  /\ pixels' = clear(pixels, now)
  /\ steps' = steps + 1
  /\ renderStreak' = 0
  /\ lastSet' = [y \in Rows |-> [x \in Cols |-> FALSE]]
  /\ clearedAt' = now
  /\ UNCHANGED <<now, degaussVars, lastRunStart, negligibleStreak>>
  /\ UNCHANGED extVars

ClearRect(x, y, w, h) ==
  /\ steps < MaxSteps
  /\ lastCall' = Call("clearRect", InGrid(x, y), FALSE, <<>>)
  /\ pixels' = clearRect(pixels, x, y, w, h, now)
  /\ steps' = steps + 1
  /\ renderStreak' = 0
  /\ UNCHANGED <<now, degaussVars, lastSet, clearedAt, lastRunStart, negligibleStreak>>
  /\ UNCHANGED extVars

\* a call of degauss()
Trigger ==
  /\ lastCall' = Call("degauss", FALSE, FALSE, <<>>)
  /\ SetDegauss(degauss(Degauss, now))
  /\ steps' = steps + 1
  /\ renderStreak' = 0
  /\ lastRunStart' = IF degaussStartTime' # degaussStartTime THEN now ELSE lastRunStart
  /\ negligibleStreak' =
       IF degaussStartTime' # degaussStartTime THEN 0
       ELSE IF lastDegaussEndTime' = now /\ now > 0 THEN negligibleStreak + 1
       ELSE negligibleStreak
  /\ activeSince' = IF degaussStartTime = 0 /\ degaussStartTime' # 0 THEN now ELSE activeSince
  /\ UNCHANGED <<pixels, now, lastSet, clearedAt, lastPattern, loopVars, gameVars>>

DegaussCall == steps < MaxSteps /\ Trigger

\* the render() made by the step op: the end check, the draw calls
RenderBy(op) ==
  /\ LET r == render(pixels, Degauss, now)
     IN  /\ lastCall' = Call(op, FALSE, FALSE, r.draws)
         /\ SetDegauss(r.degauss)
  /\ steps' = steps + 1
  /\ renderStreak' = renderStreak + 1
  /\ activeSince' = IF degaussStartTime' = 0 THEN -1 ELSE activeSince
  /\ UNCHANGED <<pixels, now, lastSet, clearedAt, lastRunStart, negligibleStreak, lastPattern,
                 gameVars>>

\* variant: a render() that clears the framebuffer once it is drawn
FrameClearsCells ==
  /\ LET r == render(pixels, Degauss, now)
     IN  /\ lastCall' = Call("render", FALSE, FALSE, r.draws)
         /\ SetDegauss(r.degauss)
  /\ pixels' = clear(pixels, now)
  /\ steps' = steps + 1
  /\ renderStreak' = renderStreak + 1
  /\ activeSince' = IF degaussStartTime' = 0 THEN -1 ELSE activeSince
  /\ UNCHANGED <<now, lastSet, clearedAt, lastRunStart, negligibleStreak, lastPattern, loopVars,
                 gameVars>>

\* a call of render()
Frame == RenderBy("render") /\ UNCHANGED loopVars

Render == steps < MaxSteps /\ Frame

\* the display driven through setPixel, clear, degauss and render
Next ==
  \/ \E d \in Deltas : Tick(d)
  \/ \E x \in XArgs, y \in YArgs, state \in BOOLEAN : SetPixel(x, y, state)
  \/ Clear
  \/ DegaussCall
  \/ Render

Spec == Init /\ [][Next]_vars

\* the pixel store driven through setPixel and clearRect
NextRect ==
  \/ \E d \in Deltas : steps < MaxRectSteps /\ Tick(d)
  \/ \E x \in Cols, y \in Rows, state \in BOOLEAN :
       steps < MaxRectSteps /\ SetPixel(x, y, state)
  \/ \E x \in RectXArgs, y \in RectYArgs, w \in WArgs, h \in HArgs :
       steps < MaxRectSteps /\ ClearRect(x, y, w, h)

SpecRect == Init /\ [][NextRect]_vars

\* the degauss effect driven through degauss() and render() over long times
NextDegauss ==
  \/ \E d \in DegaussDeltas : steps < MaxDegaussSteps /\ Advance(d)
  \/ steps < MaxDegaussSteps /\ Trigger
  \/ steps < MaxDegaussSteps /\ Frame

SpecDegauss == Init /\ [][NextDegauss]_vars

(***************************************************************************)
(* The display of the pattern tests: a display of its own, constructed     *)
(* with GlyphWidth x GlyphHeight cells, on which whole digits of the font  *)
(* are drawn.  In the behaviours of SpecGlyph the variable pixels is the   *)
(* grid of that display.                                                   *)
(***************************************************************************)
GlyphRows == 0 .. GlyphHeight - 1
GlyphCols == 0 .. GlyphWidth - 1

\* the grid its constructor allocates
InitGlyphPixels == [y \in GlyphRows |-> [x \in GlyphCols |-> OffCell]]

InitGlyph ==
  /\ pixels = InitGlyphPixels
  /\ degaussStartTime = InitDegauss.degaussStartTime
  /\ degaussDuration = InitDegauss.degaussDuration
  /\ degaussStrength = InitDegauss.degaussStrength
  /\ lastDegaussEndTime = InitDegauss.lastDegaussEndTime
  /\ lastCall = Call("new", FALSE, FALSE, <<>>)
  /\ steps = 0
  /\ lastSet = [y \in Rows |-> [x \in Cols |-> FALSE]]
  /\ clearedAt = -1
  /\ lastRunStart = 0
  /\ negligibleStreak = 0
  /\ renderStreak = 0
  /\ lastPattern = <<>>
  /\ activeSince = -1
  /\ loop = InitLoop
  /\ stoppedSince = -1
  /\ now \in {0, 1}
  /\ game = InitGame
  /\ court = InitCourt(game)
  /\ gameHist = InitHist

\* a step on that display called op, which leaves the grid px
GlyphStep(op, inside, px) ==
  /\ steps < MaxGlyphSteps
  /\ lastCall' = Call(op, inside, FALSE, <<>>)
  /\ pixels' = px
  /\ steps' = steps + 1
  /\ renderStreak' = 0
  /\ UNCHANGED <<now, degaussVars, lastSet, lastRunStart, negligibleStreak, activeSince,
                 loopVars, gameVars>>

GlyphSetPixel(x, y, state) ==
  /\ GlyphStep("setPixel", x \in GlyphCols /\ y \in GlyphRows,
               setPixelOn(GlyphWidth, GlyphHeight, pixels, x, y, state, now).pixels)
  /\ clearedAt' = -1
  /\ UNCHANGED lastPattern

GlyphClear ==
  /\ GlyphStep("clear", FALSE, clearOn(GlyphWidth, GlyphHeight, pixels, now))
  /\ clearedAt' = now
  /\ UNCHANGED lastPattern

\* the digits drawn, and the places they are drawn at
PatternArgs == {PIXEL_FONT[digit] : digit \in {1, 5, 8}}
PatternXArgs == {0, 1}
PatternYArgs == {0, 1}

\* the cells lit in the behaviours of SpecGlyph: the corners of the display
GlyphCorners == {0, GlyphWidth - 1} \X {0, GlyphHeight - 1}

AllOff(px) == \A y \in DOMAIN px : \A x \in DOMAIN px[y] : ~px[y][x].state

DrawPattern(pattern, x, y) ==
  /\ GlyphStep("drawPattern", x \in GlyphCols /\ y \in GlyphRows,
               drawPattern(GlyphWidth, GlyphHeight, pixels, pattern, x, y, 1, now))
  /\ clearedAt' = -1
  /\ lastPattern' = <<pattern, x, y, AllOff(pixels)>>

\* the test display under bulk draws made while every cell is OFF
NextGlyph ==
  \/ steps < MaxGlyphSteps /\ Advance(25)
  \/ \E c \in GlyphCorners, state \in BOOLEAN : GlyphSetPixel(c[1], c[2], state)
  \/ GlyphClear
  \/ \E pattern \in PatternArgs, x \in PatternXArgs, y \in PatternYArgs :
       AllOff(pixels) /\ DrawPattern(pattern, x, y)

SpecGlyph == InitGlyph /\ [][NextGlyph]_vars

\* a step that draws nothing and changes nothing but the loop
LoopOnly(op) ==
  /\ lastCall' = Call(op, FALSE, FALSE, <<>>)
  /\ steps' = steps + 1
  /\ renderStreak' = 0
  /\ UNCHANGED <<pixels, now, degaussVars, lastSet, clearedAt, lastRunStart,
                 negligibleStreak, lastPattern, activeSince, gameVars>>

\* a call of start()
Start ==
  /\ LET r == start(loop)
     IN  /\ loop' = r.loop
         /\ IF r.rendered THEN RenderBy("start") ELSE LoopOnly("start")
  /\ stoppedSince' = -1

\* a call of stop()
Stop ==
  /\ loop' = stop(loop)
  /\ stoppedSince' = now
  /\ LoopOnly("stop")

\* the browser runs the callback of handle id
RunCallback(id) ==
  /\ id \in loop.pending
  /\ LET r == renderLoop(loop, id)
     IN  /\ loop' = r.loop
         /\ IF r.rendered THEN RenderBy("renderLoop") ELSE LoopOnly("renderLoop")
  /\ UNCHANGED stoppedSince

(***************************************************************************)
(* The game's steps.  The page constructs the game and calls gameLoop()    *)
(* at once, so the first step is a frame; from then on the browser calls   *)
(* gameLoop once per animation frame, gameLoop calls update(), and key and *)
(* click events arrive between frames.  The display the game draws on is   *)
(* left as it is.                                                          *)
(***************************************************************************)
MaxGameSteps == 8       \* frames and events in one behaviour of SpecGame
MaxPlaySteps == 2       \* the same, off the script, in the behaviours of SpecPlay

\* the display and the log after a call of the game named op
GameCall(op) ==
  /\ lastCall' = Call(op, FALSE, FALSE, <<>>)
  /\ renderStreak' = 0
  /\ UNCHANGED <<pixels, degaussVars, lastSet, clearedAt, lastRunStart, negligibleStreak,
                 lastPattern, activeSince, loopVars>>

\* a step of the game called op, made when the clock reads now'
GameStep(op) == GameCall(op) /\ steps' = steps + 1

\* the history after an event at time t that took the game from g to h
HistAfterEvent(hist, g, h, t, keyCode) ==
  [atPause |-> IF g.gameState = "PLAYING" /\ h.gameState = "PAUSED"
               THEN <<SavedState(g)>> ELSE hist.atPause,
   countdownFrom |-> IF h.gameState = "COUNTDOWN" /\ g.gameState = "PAUSED" THEN "pause"
                     ELSE IF h.gameState = "COUNTDOWN" /\ g.gameState = "MENU" THEN "new"
                     ELSE hist.countdownFrom,
   hits |-> "none",
   goal |-> "none",
   over |-> hist.over /\ ~(h.gameState = "COUNTDOWN" /\ g.gameState = "MENU"),
   countdownSince |-> IF h.gameState = "COUNTDOWN" /\ g.gameState # "COUNTDOWN"
                      THEN t ELSE hist.countdownSince,
   numberSince |-> IF h.gameState = "COUNTDOWN" /\ g.gameState # "COUNTDOWN"
                   THEN t ELSE hist.numberSince,
   keyCode |-> keyCode,
   loaded |-> hist.loaded,
   script |-> <<>>]

\* The game, its court, its history and the clock as one value s, and what
\* each step makes of it.

\* the game s after the call u of update() at time t
AfterUpdate(s, u, t) ==
  [game |-> u.game,
   court |-> updateCourt(s.game, u.game, s.court, t),
   hist |-> [s.hist EXCEPT
               !.hits = u.hits,
               !.goal = u.goal,
               !.over = @ \/ (s.game.gameState = "PLAYING"
                                /\ u.game.gameState = "GAME_OVER"),
               !.numberSince =
                  IF u.game.countdownNumber # s.game.countdownNumber THEN t ELSE @,
               !.keyCode = -1,
               !.loaded = TRUE,
               !.script = <<>>],
   now |-> t]

\* the animation frame d ms after the previous step: gameLoop calls update()
AfterFrame(s, d, random) == AfterUpdate(s, update(s.game, s.now + d, random), s.now + d)

\* a keydown event
AfterKeyDown(s, e) ==
  [game |-> keydown(s.game, e, s.now),
   court |-> keydownCourt(s.game, e, s.now, s.court),
   hist |-> HistAfterEvent(s.hist, s.game, keydown(s.game, e, s.now), s.now, e.keyCode),
   now |-> s.now]

\* a keyup event: its listener draws nothing
AfterKeyUp(s, key) ==
  [game |-> keyup(s.game, key),
   court |-> Drawn(Drawing(s.court), s.court),
   hist |-> HistAfterEvent(s.hist, s.game, keyup(s.game, key), s.now, -1),
   now |-> s.now]

\* a click on the canvas that maps to the cell (pixelX, pixelY)
AfterClick(s, pixelX, pixelY) ==
  [game |-> checkButtonClick(s.game, pixelX, pixelY, s.now),
   court |-> checkButtonClickCourt(s.game, pixelX, pixelY, s.court),
   hist |-> HistAfterEvent(s.hist, s.game, checkButtonClick(s.game, pixelX, pixelY, s.now),
                           s.now, -1),
   now |-> s.now]

\* the value s of the current state, and the step that leaves s
Current == [game |-> game, court |-> court, hist |-> gameHist, now |-> now]

Becomes(s) ==
  /\ game' = s.game
  /\ court' = s.court
  /\ gameHist' = s.hist
  /\ now' = s.now

GameFrame(d, random) == Becomes(AfterFrame(Current, d, random)) /\ GameStep("update")

\* events reach the listeners once the page is loaded
KeyDown(e) == gameHist.loaded /\ Becomes(AfterKeyDown(Current, e)) /\ GameStep(e.key)

KeyUp(key) == gameHist.loaded /\ Becomes(AfterKeyUp(Current, key)) /\ GameStep("keyup")

Click(pixelX, pixelY) ==
  gameHist.loaded /\ Becomes(AfterClick(Current, pixelX, pixelY)) /\ GameStep("click")

\* the times between two frames: one refresh interval, one countdown step
FrameDeltas == {17, countdownDuration}

\* the cells clicked: the centre of the start button, of the restart button
ClickArgs ==
  {<<StartButtonX + buttonSize \div 2, height \div 2>>,
   <<RestartButtonX + buttonSize \div 2, height \div 2>>}

\* the keys pressed in the behaviours of SpecGame: Enter, the P key with
\* e.key "p" and with its code alone, "w", "L" and the down key
GameKeyEvents ==
  {KeyEvent("p"), CodeEvent(PauseKeyCode), KeyEvent("Enter"), KeyEvent("w"),
   KeyEvent("L"), KeyEvent("ArrowDown")}

\* the game from its construction: menu, countdown, play, pause, game over.
\* Frames come one refresh interval or one countdown step apart; the events
\* are those that change the game.
NextGame ==
  \/ \E d \in FrameDeltas, random \in RandomArgs :
       steps < MaxGameSteps /\ GameFrame(d, random)
  \/ \E e \in GameKeyEvents :
       steps < MaxGameSteps /\ keydown(game, e, now) # game /\ KeyDown(e)
  \/ \E c \in ClickArgs :
       /\ steps < MaxGameSteps
       /\ checkButtonClick(game, c[1], c[2], now) # game
       /\ Click(c[1], c[2])

SpecGame == Init /\ [][NextGame]_vars

(***************************************************************************)
(* Play in progress.  The behaviours of SpecPlay start at the constructor  *)
(* and play a scripted game call by call: a script is a sequence of runs   *)
(* <<up, down, n, d>>, and in a run the key up is released and the key     *)
(* down is pressed, unless they are "none", and n frames follow, d ms      *)
(* apart.  The values of Math.random() are those of the script throughout. *)
(* Where a run ends, and where the script ends, a behaviour may leave the  *)
(* script for up to MaxPlaySteps frames and events of any kind.            *)
(***************************************************************************)
\* the lowest row of a paddle
PaddleMaxY == DInt(height - 1 - PADDLE_HEIGHT)

\* the scripts
Scripts ==
  << [random |-> Random(DZero, DZero),
      runs |-> <<<<"none", "none", 1, 17>>, <<"none", "Enter", 3, 750>>,
                 <<"Enter", "none", 492, 17>>, <<"none", "Enter", 1, 17>>,
                 <<"Enter", "none", 1, 17>>, <<"none", "Enter", 1, 733>>,
                 <<"Enter", "none", 1, 17>>, <<"none", "none", 2, 750>>,
                 <<"none", "ArrowUp", 40, 17>> >>],
     [random |-> Random(Half, DZero),
      runs |-> <<<<"none", "none", 1, 17>>, <<"none", "Enter", 3, 750>>,
                 <<"Enter", "none", 26, 17>>, <<"none", "ArrowUp", 18, 17>>,
                 <<"ArrowUp", "ArrowDown", 39, 17>>,
                 <<"ArrowDown", "none", 5, 17>>,
                 <<"none", "ArrowDown", 25, 17>>,
                 <<"ArrowDown", "none", 50, 17>>,
                 <<"none", "ArrowUp", 63, 17>>,
                 <<"ArrowUp", "none", 18, 17>>,
                 <<"none", "ArrowDown", 40, 17>>,
                 <<"ArrowDown", "none", 32, 17>>,
                 <<"none", "ArrowDown", 45, 17>>,
                 <<"ArrowDown", "ArrowUp", 21, 17>>,
                 <<"ArrowUp", "ArrowDown", 6, 17>>, <<"none", "p", 2, 17>>,
                 <<"p", "none", 1, 17>>, <<"none", "p", 135, 17>>,
                 <<"p", "none", 26, 17>>, <<"ArrowDown", "ArrowUp", 3, 17>>,
                 <<"ArrowUp", "none", 64, 17>>,
                 <<"none", "ArrowUp", 16, 17>>,
                 <<"ArrowUp", "ArrowDown", 13, 17>>,
                 <<"ArrowDown", "ArrowUp", 6, 17>>,
                 <<"ArrowUp", "none", 8, 17>>,
                 <<"none", "ArrowDown", 31, 17>>,
                 <<"ArrowDown", "ArrowUp", 44, 17>>,
                 <<"ArrowUp", "ArrowDown", 67, 17>>,
                 <<"ArrowDown", "ArrowUp", 37, 17>>,
                 <<"ArrowUp", "ArrowDown", 34, 17>>,
                 <<"ArrowDown", "none", 48, 17>>,
                 <<"none", "ArrowDown", 3, 17>>,
                 <<"ArrowDown", "ArrowUp", 92, 17>>,
                 <<"ArrowUp", "none", 10, 17>>,
                 <<"none", "ArrowUp", 23, 17>>,
                 <<"ArrowUp", "ArrowDown", 89, 17>>,
                 <<"ArrowDown", "ArrowUp", 22, 17>>,
                 <<"ArrowUp", "ArrowDown", 77, 17>>,
                 <<"ArrowDown", "ArrowUp", 6, 17>>,
                 <<"ArrowUp", "ArrowDown", 36, 17>>,
                 <<"ArrowDown", "none", 40, 17>>,
                 <<"none", "ArrowUp", 32, 17>>,
                 <<"ArrowUp", "ArrowDown", 56, 17>>,
                 <<"ArrowDown", "ArrowUp", 3, 17>>,
                 <<"ArrowUp", "none", 104, 17>>,
                 <<"none", "ArrowUp", 70, 17>>,
                 <<"ArrowUp", "ArrowDown", 5, 17>>,
                 <<"ArrowDown", "ArrowUp", 47, 17>>,
                 <<"ArrowUp", "ArrowDown", 20, 17>> >>],
     [random |-> Random(Half, RandomHigh),
      runs |-> <<<<"none", "none", 1, 17>>, <<"none", "Enter", 3, 750>>,
                 <<"Enter", "ArrowDown", 83, 17>>,
                 <<"ArrowDown", "ArrowUp", 166, 17>>,
                 <<"ArrowUp", "ArrowDown", 72, 17>>,
                 <<"ArrowDown", "none", 51, 17>>,
                 <<"none", "ArrowDown", 28, 17>>,
                 <<"ArrowDown", "ArrowUp", 43, 17>>,
                 <<"ArrowUp", "none", 77, 17>>,
                 <<"none", "ArrowDown", 16, 17>>,
                 <<"ArrowDown", "ArrowUp", 36, 17>> >>],
     [random |-> Random(DZero, RandomHigh),
      runs |-> <<<<"none", "none", 2, 17>>, <<"none", "Enter", 1, 733>>,
                 <<"Enter", "none", 1, 17>>, <<"none", "none", 1, 1600>>,
                 <<"none", "none", 1, 750>>, <<"none", "ArrowUp", 30, 17>>,
                 <<"ArrowUp", "ArrowDown", 45, 17>>, <<"none", "p", 2, 17>>,
                 <<"p", "none", 1, 17>>, <<"none", "p", 1, 1600>>,
                 <<"p", "none", 1, 17>>, <<"none", "none", 2, 750>>,
                 <<"none", "none", 5, 17>> >>] >>

\* the runs of the script that holds the place pos
Runs(pos) == Scripts[pos[1]].runs

\* the place pos is in a run of its script
InRun(pos) == IF pos = <<>> THEN FALSE ELSE pos[2] <= Len(Runs(pos))

\* run i starts with the release of a key, with the press of a key
Releases(runs, i) == runs[i][1] # "none"

Presses(runs, i) == runs[i][2] # "none"

\* the calls of run i before its first frame, and all of its calls
Events(runs, i) ==
  (IF Releases(runs, i) THEN 1 ELSE 0) + (IF Presses(runs, i) THEN 1 ELSE 0)

Calls(runs, i) == Events(runs, i) + runs[i][3]

\* the place after the call at pos: in the same run, or at the start of the
\* next one, which for the last run is the end of the script
Following(pos) ==
  IF pos[3] + 1 < Calls(Runs(pos), pos[2])
  THEN <<pos[1], pos[2], pos[3] + 1>>
  ELSE <<pos[1], pos[2] + 1, 0>>

\* the game s at the place pos of a script
At(s, pos) == [s EXCEPT !.hist.script = pos]

\* the next call of the script is the keyup event that starts a run
ScriptedKeyUp(pos) ==
  /\ gameHist.loaded
  /\ Releases(Runs(pos), pos[2])
  /\ pos[3] = 0
  /\ Becomes(At(AfterKeyUp(Current, Runs(pos)[pos[2]][1]), Following(pos)))
  /\ GameCall("keyup")

\* the next call of the script is the keydown event of a run
ScriptedKeyDown(pos) ==
  /\ gameHist.loaded
  /\ Presses(Runs(pos), pos[2])
  /\ pos[3] + 1 = Events(Runs(pos), pos[2])
  /\ Becomes(At(AfterKeyDown(Current, KeyEvent(Runs(pos)[pos[2]][2])), Following(pos)))
  /\ GameCall(Runs(pos)[pos[2]][2])

\* the next call of the script is a frame of a run
ScriptedFrame(pos) ==
  /\ pos[3] >= Events(Runs(pos), pos[2])
  /\ Becomes(At(AfterFrame(Current, Runs(pos)[pos[2]][4], Scripts[pos[1]].random),
                Following(pos)))
  /\ GameCall("update")

\* the next call of the script; the count of the steps off the script stays
Scripted ==
  /\ InRun(gameHist.script)
  /\ \/ ScriptedKeyUp(gameHist.script)
     \/ ScriptedKeyDown(gameHist.script)
     \/ ScriptedFrame(gameHist.script)
  /\ UNCHANGED steps

InitPlay ==
  /\ InitDisplay
  /\ now = 0
  /\ game = InitGame
  /\ court = InitCourt(game)
  /\ \E k \in DOMAIN Scripts : gameHist = [InitHist EXCEPT !.script = <<k, 1, 0>>]

\* the keys pressed off the script in the behaviours of SpecPlay
PlayKeyEvents ==
  {KeyEvent("ArrowUp"), KeyEvent("ArrowDown"), KeyEvent("Enter"), KeyEvent("p")}

\* a behaviour is off the script, or where it may leave it
OffScript == IF gameHist.script = <<>> THEN TRUE ELSE gameHist.script[3] = 0

\* the scripted games, and play around them: frames one refresh interval or
\* one countdown step apart with any of the values of Math.random(); the
\* arrow keys pressed and released, the P key, and Enter
NextPlay ==
  \/ Scripted
  \/ \E d \in FrameDeltas, random \in RandomArgs :
       OffScript /\ steps < MaxPlaySteps /\ GameFrame(d, random)
  \/ \E e \in PlayKeyEvents :
       /\ OffScript
       /\ steps < MaxPlaySteps
       /\ keydown(game, e, now) # game
       /\ KeyDown(e)
  \/ \E key \in ArrowKeys :
       OffScript /\ steps < MaxPlaySteps /\ keyup(game, key) # game /\ KeyUp(key)

SpecPlay == InitPlay /\ [][NextPlay]_vars

(***************************************************************************)
(* Countdowns.  The behaviours of SpecCountdown play the last script, in   *)
(* which the countdown of a new game and the countdown after a pause pass  *)
(* under frames that come early, on time and late, and leave it where a    *)
(* run ends for up to MaxCountdownSteps frames and events.                 *)
(***************************************************************************)
\* the times between two frames of a countdown: a refresh interval, the rest
\* of a countdown step, and a frame that comes more than two steps late
CountdownDeltas == {17, countdownDuration - 17, 2 * countdownDuration + 100}

MaxCountdownSteps == 4  \* frames and events off the script in SpecCountdown

\* the keys pressed off the script in the behaviours of SpecCountdown: the
\* Enter key by its code alone, and the P key with e.key "P"
CountdownKeyEvents == {CodeEvent(EnterKeyCode), KeyEvent("P")}

InitCountdown ==
  /\ InitDisplay
  /\ now = 0
  /\ game = InitGame
  /\ court = InitCourt(game)
  /\ gameHist = [InitHist EXCEPT !.script = <<Len(Scripts), 1, 0>>]

NextCountdown ==
  \/ Scripted
  \/ \E d \in CountdownDeltas, random \in RandomArgs :
       OffScript /\ steps < MaxCountdownSteps /\ GameFrame(d, random)
  \/ \E e \in CountdownKeyEvents :
       /\ OffScript
       /\ steps < MaxCountdownSteps
       /\ keydown(game, e, now) # game
       /\ KeyDown(e)

SpecCountdown == InitCountdown /\ [][NextCountdown]_vars

\* the render loop started and stopped while a cell is set and time passes
NextLoop ==
  \/ \E d \in RenderDeltas : steps < MaxLoopSteps /\ Advance(d)
  \/ \E state \in BOOLEAN : steps < MaxLoopSteps /\ SetPixel(0, 0, state)
  \/ steps < MaxLoopSteps /\ Start
  \/ steps < MaxLoopSteps /\ Stop
  \/ \E id \in loop.pending : steps < MaxLoopSteps /\ RunCallback(id)

SpecLoop == Init /\ [][NextLoop]_vars

\* frames of lit cells drawn while idle, during a degauss run and after it
NextRender ==
  \/ \E d \in RenderDeltas : steps < MaxRenderSteps /\ Advance(d)
  \/ \E x \in RenderCols, state \in BOOLEAN :
       steps < MaxRenderSteps /\ SetPixel(x, 0, state)
  \/ steps < MaxRenderSteps /\ Trigger
  \/ steps < MaxRenderSteps /\ Frame

SpecRender == Init /\ [][NextRender]_vars

(***************************************************************************)
(* Properties.                                                             *)
(***************************************************************************)
Cell(x, y) == pixels[y][x]

\* the cells of the grid, as values
Cells == {pixels[y][x] : x \in Cols, y \in Rows}

\* elapsed times at which calculateBrightness is probed, in increasing order
ProbeSeq == <<0, 1, 25, 49, 50, 52, 100, 199, 200, 250>>
ProbeElapsed == {ProbeSeq[i] : i \in DOMAIN ProbeSeq}
\* times at which calculateBrightness is probed, relative to the clock
ProbeOffsets == {-250, -52, -25, 0, 25, 52, 199, 250}

\* a draw call of the per-cell loops
IsCellFill(d) == d.style = "rgba(57, 255, 20)"
CellFillsOf(draws) == {i \in DOMAIN draws : IsCellFill(draws[i])}

\* C1: for every (x, y) outside the grid, setPixel(x, y, s) changes no cell and
\* does not throw, and getPixel(x, y) returns false.
C1_OutOfBoundsIgnored ==
  [][(lastCall'.op = "setPixel" /\ ~lastCall'.inside) =>
     \A x \in XArgs, y \in YArgs, s \in BOOLEAN :
       (~InGrid(x, y) /\ SetPixel(x, y, s))
         => /\ pixels' = pixels
            /\ ~lastCall'.threw
            /\ getPixel(pixels, x, y) = FALSE
            /\ getPixel(pixels', x, y) = FALSE]_vars

\* an out-of-grid setPixel was the last call, made on a grid with a lit cell
C1_Witness ==
  /\ lastCall.op = "setPixel" /\ ~lastCall.inside
  /\ \E x \in Cols, y \in Rows : Cell(x, y).state

\* C2: setPixel(x, y, s) on an in-grid cell whose state is already s changes
\* nothing: state, onTimestamp and offTimestamp of every cell stay as they were.
C2_SameStateNoOp ==
  [][lastCall'.op = "setPixel" =>
     \A x \in Cols, y \in Rows, s \in BOOLEAN :
       (Cell(x, y).state = s /\ SetPixel(x, y, s))
         => pixels' = pixels /\ ~lastCall'.threw]_vars

\* the last call was an in-grid setPixel that stamped nothing (no timestamp
\* equals the clock) while a lit cell is in the middle of its fade-in
C2_Witness ==
  /\ lastCall.op = "setPixel" /\ lastCall.inside /\ now > 0
  /\ \A x \in Cols, y \in Rows :
       Cell(x, y).onTimestamp # now /\ Cell(x, y).offTimestamp # now
  /\ \E x \in Cols, y \in Rows :
       /\ Cell(x, y).state /\ Cell(x, y).onTimestamp > 0
       /\ now - Cell(x, y).onTimestamp < fadeInTime

\* C3: setPixel(x, y, s) at time now on an in-grid cell whose state differs
\* from s sets its state to s and exactly one timestamp to now (onTimestamp
\* when s is true, offTimestamp when s is false); no other cell changes.
C3_ChangeStampsOne ==
  [][lastCall'.op = "setPixel" =>
     \A x \in Cols, y \in Rows, s \in BOOLEAN :
       (Cell(x, y).state # s /\ SetPixel(x, y, s))
         => /\ pixels'[y][x].state = s
            /\ pixels'[y][x].onTimestamp = (IF s THEN now ELSE Cell(x, y).onTimestamp)
            /\ pixels'[y][x].offTimestamp = (IF s THEN Cell(x, y).offTimestamp ELSE now)
            /\ \A x2 \in Cols, y2 \in Rows :
                 <<x2, y2>> # <<x, y>> => pixels'[y2][x2] = pixels[y2][x2]
            /\ ~lastCall'.threw]_vars

\* the last call turned a cell back on whose earlier off edge is kept
C3_Witness ==
  /\ lastCall.op = "setPixel" /\ lastCall.inside
  /\ \E x \in Cols, y \in Rows :
       /\ Cell(x, y).state /\ Cell(x, y).onTimestamp = now
       /\ Cell(x, y).offTimestamp > 0 /\ Cell(x, y).offTimestamp < now

\* C4: after any sequence of setPixel, clear, degauss and render calls,
\* getPixel(x, y) of an in-grid cell is the value of the most recent setPixel
\* on that cell since the last clear(), and false if there was none.
C4_GetPixelIsLastSet ==
  \A x \in Cols, y \in Rows : getPixel(pixels, x, y) = lastSet[y][x]

\* a cell was set, the grid was rendered, and another cell is still unset
C4_Witness ==
  /\ lastCall.op = "render"
  /\ degaussStartTime # 0
  /\ \E x \in Cols, y \in Rows : lastSet[y][x] /\ getPixel(pixels, x, y)
  /\ \E x \in Cols, y \in Rows : ~lastSet[y][x] /\ Cell(x, y).offTimestamp > 0

\* C5: clear() at time now sets state to false and offTimestamp to now in
\* every cell, the cells already off included, and leaves every onTimestamp
\* and the degauss fields unchanged.
C5_ClearResetsEveryCell ==
  [][Clear =>
       /\ \A x \in Cols, y \in Rows :
            /\ pixels'[y][x].state = FALSE
            /\ pixels'[y][x].offTimestamp = now
            /\ pixels'[y][x].onTimestamp = Cell(x, y).onTimestamp
       /\ UNCHANGED degaussVars]_vars

\* clear() was the last call, on a grid with a cell that had been lit and a
\* cell that never was, and it stamped both
C5_Witness ==
  /\ lastCall.op = "clear" /\ now > 0
  /\ \E x \in Cols, y \in Rows : Cell(x, y).onTimestamp > 0
  /\ \E x \in Cols, y \in Rows :
       Cell(x, y).onTimestamp = 0 /\ Cell(x, y).offTimestamp = now

\* C6: if clear() was called at time c and no setPixel call followed, then at
\* every time t >= c + 200 every cell has brightness exactly 0 and render(t)
\* issues no per-cell fillRect.
C6_DarkAfterClear ==
  (clearedAt >= 0 /\ now >= clearedAt + fadeOutTime)
    => /\ \A x \in Cols, y \in Rows :
            BEq(calculateBrightness(Cell(x, y), now), BZero)
       /\ CellFillsOf(render(pixels, Degauss, now).draws) = {}
       /\ lastCall.op = "render" => CellFillsOf(lastCall.draws) = {}

\* a lit grid was cleared, 200 time units passed, and render was called
C6_Witness ==
  /\ lastCall.op = "render"
  /\ clearedAt > 0 /\ now >= clearedAt + fadeOutTime
  /\ \E x \in Cols, y \in Rows : Cell(x, y).onTimestamp > 0

\* C7: clearRect(x, y, w, h) sets state to false and offTimestamp to now in
\* exactly the cells of [x, x+w) x [y, y+h) that lie in the grid and leaves
\* every other cell unchanged; the part outside the grid is ignored.
C7_ClearRectExactlyTheRectangle ==
  [][lastCall'.op = "clearRect" =>
     \A x \in RectXArgs, y \in RectYArgs, w \in WArgs, h \in HArgs :
       ClearRect(x, y, w, h)
         => /\ \A xx \in Cols, yy \in Rows :
                 IF x <= xx /\ xx < x + w /\ y <= yy /\ yy < y + h
                 THEN /\ pixels'[yy][xx].state = FALSE
                      /\ pixels'[yy][xx].offTimestamp = now
                      /\ pixels'[yy][xx].onTimestamp = Cell(xx, yy).onTimestamp
                 ELSE pixels'[yy][xx] = Cell(xx, yy)
            /\ DOMAIN pixels' = Rows
            /\ ~lastCall'.threw]_vars

\* a clearRect whose corner lies outside the grid cleared one lit cell and
\* left another lit cell alone
C7_Witness ==
  /\ lastCall.op = "clearRect" /\ ~lastCall.inside /\ now > 0
  /\ \E x \in Cols, y \in Rows : Cell(x, y).state
  /\ \E x \in Cols, y \in Rows :
       /\ ~Cell(x, y).state /\ Cell(x, y).offTimestamp = now
       /\ Cell(x, y).onTimestamp > 0

\* C8: calculateBrightness(cell, t) lies in [0, 1] for every cell that
\* setPixel and clear calls can produce and every time t.
C8_BrightnessInUnitInterval ==
  \A c \in Cells, d \in ProbeOffsets :
    LET b == calculateBrightness(c, now + d)
    IN  BLeq(BZero, b) /\ BLeq(b, BOne)

\* a cell is probed before its own off edge, where (1 - t)^6 exceeds 1
C8_Witness ==
  \E x \in Cols, y \in Rows, d \in ProbeOffsets :
    /\ Cell(x, y).offTimestamp > now + d
    /\ Cell(x, y).onTimestamp > 0
    /\ BEq(calculateBrightness(Cell(x, y), now + d), BOne)

\* the fade-out term of the cell is not active at time t
NoFadeOut(c, t) == c.offTimestamp = 0 \/ t - c.offTimestamp >= fadeOutTime

\* the fade-in curve holds for the cell at e time units after its on edge
FadeInCurveAt(c, e) ==
  BEq(calculateBrightness(c, c.onTimestamp + e),
      IF e < fadeInTime THEN Lin(e, fadeInTime) ELSE BOne)

\* C9, as amended: a pixel turned ON at any time t0 > 0 and still ON, with no
\* fade-out term active, has brightness e/50 at t0 + e for 0 <= e < 50 and
\* exactly 1 for every e >= 50.
C9_FadeInAfterTimeZero ==
  \A c \in Cells, e \in ProbeElapsed :
    (c.state /\ c.onTimestamp > 0 /\ NoFadeOut(c, c.onTimestamp + e))
      => FadeInCurveAt(c, e)

\* a lit cell is halfway through its fade-in, at brightness 1/2
C9_Witness ==
  \E x \in Cols, y \in Rows :
    /\ Cell(x, y).state /\ Cell(x, y).onTimestamp > 0
    /\ NoFadeOut(Cell(x, y), now)
    /\ now - Cell(x, y).onTimestamp = 25
    /\ BEq(calculateBrightness(Cell(x, y), now), Lin(1, 2))

\* C9, as claimed: the same for a pixel turned ON at any time t0, the time 0
\* included (a cell that is ON was turned ON at its onTimestamp).
C9_FadeInAtAnyTime ==
  \A c \in Cells, e \in ProbeElapsed :
    (c.state /\ NoFadeOut(c, c.onTimestamp + e)) => FadeInCurveAt(c, e)

\* C10: a pixel that is OFF with offTimestamp = t1 > 0 has brightness
\* (1 - e/200)^6 at t1 + e for 0 <= e < 200, which is below 1 for 0 < e < 200
\* and does not increase with e, and exactly 0 for every e >= 200.
C10_FadeOut ==
  \A c \in Cells :
    (~c.state /\ c.offTimestamp > 0)
      => /\ \A e \in ProbeElapsed :
              LET b == calculateBrightness(c, c.offTimestamp + e)
              IN  /\ e < fadeOutTime => BEq(b, Pow6(fadeOutTime - e, fadeOutTime))
                  /\ (0 < e /\ e < fadeOutTime) => BLess(b, BOne)
                  /\ e >= fadeOutTime => BEq(b, BZero)
         /\ \A i \in 1 .. Len(ProbeSeq) - 1 :
              BLeq(calculateBrightness(c, c.offTimestamp + ProbeSeq[i + 1]),
                   calculateBrightness(c, c.offTimestamp + ProbeSeq[i]))

\* a cell that was lit is off and a quarter of an eighth into its fade-out
C10_Witness ==
  \E x \in Cols, y \in Rows :
    /\ ~Cell(x, y).state /\ Cell(x, y).onTimestamp > 0
    /\ Cell(x, y).offTimestamp > 0
    /\ now - Cell(x, y).offTimestamp = 25
    /\ BLess(BZero, calculateBrightness(Cell(x, y), now))
    /\ BLess(calculateBrightness(Cell(x, y), now), BOne)

\* the fade-out curve of an off edge at time off, seen at time t, whatever the
\* state of the cell
FadeOutCurve(off, t) ==
  IF off > 0 /\ t - off < fadeOutTime
  THEN Pow6(fadeOutTime - (t - off), fadeOutTime)
  ELSE BZero

\* C11: the fade-out term is the same function of offTimestamp for an ON and
\* for an OFF cell, the brightness is min(1, max(fadeIn, fadeOut)) and never
\* the sum of the two, and a cell turned OFF and back ON at the same instant
\* t > 0 has brightness 1 at t.
C11_LargerTermWins ==
  \A c \in Cells :
    /\ \A d \in ProbeOffsets :
         LET fo == FadeOutCurve(c.offTimestamp, now + d)
             fi == fadeInBrightness(c, now + d)
             b == calculateBrightness(c, now + d)
         IN  /\ BEq(fadeOutBrightness(c, now + d), fo)
             /\ BEq(fadeOutBrightness([c EXCEPT !.state = ~c.state], now + d), fo)
             /\ BEq(b, BMin(BOne, BMax(fi, fo)))
             /\ BEq(b, BOne) \/ BEq(b, fi) \/ BEq(b, fo)
    /\ (c.state /\ c.onTimestamp > 0 /\ c.offTimestamp = c.onTimestamp)
         => BEq(calculateBrightness(c, c.onTimestamp), BOne)

\* a cell went OFF and back ON at the same instant, now, and is at brightness 1
\* while its fade-in ramp is still 0
C11_Witness ==
  \E x \in Cols, y \in Rows :
    /\ Cell(x, y).state
    /\ Cell(x, y).onTimestamp = now /\ Cell(x, y).offTimestamp = now /\ now > 0
    /\ BEq(fadeInBrightness(Cell(x, y), now), BZero)
    /\ BEq(calculateBrightness(Cell(x, y), now), BOne)

\* a run is in flight: the marker is set and the duration has not elapsed
InFlight == degaussStartTime # 0 /\ ElapsedLess(now - degaussStartTime, degaussDuration)

\* C12: no stacking: a degauss() call made while a run is in flight changes
\* none of degaussStartTime, degaussDuration, degaussStrength and
\* lastDegaussEndTime.
C12_NoStacking ==
  [][(lastCall'.op = "degauss" /\ InFlight) => UNCHANGED degaussVars]_vars

\* degauss() has just returned during a run that started earlier and is
\* still in flight
C12_Witness ==
  /\ lastCall.op = "degauss"
  /\ InFlight
  /\ degaussStartTime < now

\* less than DEGAUSS_COOLDOWN_MIN_MS have passed since the most recent run
\* ended, that is since lastRunStart + degaussDuration (degaussDuration is
\* written only when a run starts)
EndedRecently ==
  /\ lastRunStart # 0
  /\ ElapsedLess(now - lastRunStart - DEGAUSS_COOLDOWN_MIN_MS, degaussDuration)

\* C13: cooldown gating: in every interleaving of degauss() and render() calls,
\* a degauss() call made less than 1000 time units after the previous run
\* ended starts no run, and when it is not ignored as stacking the strength it
\* computes is 0.
C13_CooldownGating ==
  [][(lastCall'.op = "degauss" /\ EndedRecently)
       => /\ degaussStartTime' = degaussStartTime
          /\ ~InFlight => cooldownStrength(lastDegaussEndTime, now).num = 0]_vars

\* The gating does hold for a trigger made after render() has observed the
\* end of the run, since render() then records lastDegaussEndTime.
C13_GatedOnceRenderSawTheEnd ==
  [][(lastCall'.op = "degauss" /\ EndedRecently /\ degaussStartTime = 0)
       => /\ degaussStartTime' = degaussStartTime
          /\ cooldownStrength(lastDegaussEndTime, now).num = 0]_vars

\* degauss() has just returned less than 1000 time units after the end of a
\* run that render() had observed, and it started nothing
C13_GatedWitness ==
  /\ lastCall.op = "degauss"
  /\ degaussStartTime = 0
  /\ lastRunStart # 0
  /\ lastDegaussEndTime = now
  /\ ElapsedLess(now - lastRunStart - DEGAUSS_COOLDOWN_MIN_MS, degaussDuration)

\* elapsed times at which the cooldown strength is probed, in increasing order
ElapsedSeq == <<0, 500, 1000, 1001, 2346, 2347, 3000, 15500, 29999, 30000, 30001, 60000>>

\* strengths x^1.5 compared through their bases: (a.num/a.den) <= (b.num/b.den)
StrengthLeq(a, b) == a.num * b.den <= b.num * a.den
StrengthIsZero(a) == a.num = 0
StrengthIsOne(a) == a.num = a.den /\ a.den > 0

\* x^1.5 with x = clamp((elapsed - 1000) / 29000, 0, 1)
StrengthAt(elapsed) ==
  LET span == DEGAUSS_COOLDOWN_MS - DEGAUSS_COOLDOWN_MIN_MS
      n == elapsed - DEGAUSS_COOLDOWN_MIN_MS
  IN  [num |-> IF n < 0 THEN 0 ELSE IF n > span THEN span ELSE n, den |-> span]

\* C14: the strength a trigger computes depends only on the time elapsed since
\* lastDegaussEndTime: it is x^1.5 with x = clamp((elapsed - 1000)/29000, 0, 1),
\* which is 0 for elapsed <= 1000, 1 for elapsed >= 30000, non-decreasing in
\* elapsed and always within [0, 1]; the strength of the run in flight is that
\* of the elapsed time at its trigger.
C14_StrengthCurve ==
  lastDegaussEndTime # 0 =>
    /\ \A i \in DOMAIN ElapsedSeq :
         LET e == ElapsedSeq[i]
             s == cooldownStrength(lastDegaussEndTime, lastDegaussEndTime + e)
         IN  /\ s = StrengthAt(e)
             /\ e <= DEGAUSS_COOLDOWN_MIN_MS => StrengthIsZero(s)
             /\ e >= DEGAUSS_COOLDOWN_MS => StrengthIsOne(s)
             /\ 0 <= s.num /\ s.num <= s.den /\ s.den > 0
             /\ i > 1 => StrengthLeq(cooldownStrength(lastDegaussEndTime,
                                       lastDegaussEndTime + ElapsedSeq[i - 1]), s)
    /\ degaussStartTime # 0 =>
         degaussStrength = StrengthAt(degaussStartTime - lastDegaussEndTime)

\* a run triggered part of the way through the cooldown is in flight, at a
\* strength strictly between 0 and 1
C14_Witness ==
  /\ lastDegaussEndTime # 0
  /\ degaussStartTime # 0
  /\ DEGAUSS_COOLDOWN_MIN_MS < degaussStartTime - lastDegaussEndTime
  /\ degaussStartTime - lastDegaussEndTime < DEGAUSS_COOLDOWN_MS
  /\ 0 < degaussStrength.num /\ degaussStrength.num < degaussStrength.den

\* the sign of e - dur for a time e >= 0 and a duration coef * (num/den)^1.5
DurationCmp(e, dur) ==
  BigCmp(BigMulPow(BigMulPow(<<1>>, e, 2), dur.den, 3),
         BigMulPow(BigMulPow(<<1>>, dur.coef, 2), dur.num, 3))

\* no run has started and no end of a run is recorded
NeverRan == lastDegaussEndTime = 0 /\ lastRunStart = 0

\* the fields mark a run at strength 1 lasting 2000 as active
FullRunMarked(startTime, strength, dur) ==
  /\ startTime # 0
  /\ StrengthIsOne(strength)
  /\ DurationCmp(DEGAUSS_DURATION_BASE_MS, dur) = 0

\* C15, as amended: a degauss() trigger at any time t > 0 on a display that has
\* never run a degauss enters Active with degaussStartTime = t, strength 1 and
\* duration 2000, and from then on degaussStartTime is nonzero in every state
\* until render() has recorded the end of a run, which it does only when called
\* at a time >= t + 2000.
C15_FirstTriggerAfterTimeZero ==
  [][/\ (lastCall'.op = "degauss" /\ NeverRan /\ now > 0)
          => /\ degaussStartTime' = now
             /\ FullRunMarked(degaussStartTime', degaussStrength', degaussDuration')
     /\ (lastDegaussEndTime' = 0 /\ lastRunStart' # 0)
          => FullRunMarked(degaussStartTime', degaussStrength', degaussDuration')
     /\ (lastDegaussEndTime = 0 /\ lastDegaussEndTime' # 0)
          => /\ lastCall'.op = "render"
             /\ now >= lastRunStart + DEGAUSS_DURATION_BASE_MS]_vars

\* the first run is still marked active a full duration after its trigger,
\* render() not having been called since
C15_Witness ==
  /\ lastDegaussEndTime = 0
  /\ lastRunStart # 0
  /\ degaussStartTime = lastRunStart
  /\ now >= degaussStartTime + DEGAUSS_DURATION_BASE_MS

\* C15, as claimed: the same for a trigger at any time t, the time 0 included.
C15_FirstTriggerAtAnyTime ==
  [][(lastCall'.op = "degauss" /\ NeverRan)
       => /\ degaussStartTime' = now
          /\ FullRunMarked(degaussStartTime', degaussStrength', degaussDuration')]_vars

\* C16: a degauss() trigger made while no run is in flight whose computed
\* strength is below 0.01 starts no run (degaussStartTime, degaussDuration and
\* degaussStrength are unchanged) and sets lastDegaussEndTime to now, so that
\* the next trigger is measured from this one and triggers spaced less than
\* the negligible-strength interval apart never start a run.
C16_NegligibleTriggerRestartsCooldown ==
  [][(/\ lastCall'.op = "degauss"
      /\ ~InFlight
      /\ StrengthNegligible(cooldownStrength(lastDegaussEndTime, now)))
       => /\ UNCHANGED <<degaussStartTime, degaussDuration, degaussStrength>>
          /\ lastDegaussEndTime' = now]_vars

\* degauss() has just returned without starting a run for the second time
\* in a row, 2000 after the trigger before it and 4000 after the last run
\* ended
C16_Witness ==
  /\ lastCall.op = "degauss"
  /\ degaussStartTime = 0
  /\ lastDegaussEndTime = now
  /\ negligibleStreak = 2
  /\ now - lastRunStart = 3 * DEGAUSS_DURATION_BASE_MS

\* dur is DEGAUSS_DURATION_BASE_MS times the strength s
DurationOfStrength(dur, s) ==
  /\ dur.coef = DEGAUSS_DURATION_BASE_MS
  /\ dur.num * s.den = s.num * dur.den

\* 0.01 <= s <= 1 and 20 <= dur <= 2000
RunInRange(s, dur) ==
  /\ ~StrengthNegligible(s)
  /\ 0 <= s.num /\ s.num <= s.den
  /\ DurationCmp(DEGAUSS_DURATION_BASE_MS \div 100, dur) <= 0
  /\ DurationCmp(DEGAUSS_DURATION_BASE_MS, dur) >= 0

\* C17: a degauss() trigger made while no run is in flight whose computed
\* strength is at least 0.01 sets degaussStartTime = now, stores the strength
\* and the duration 2000 x strength and leaves lastDegaussEndTime unchanged;
\* and whenever a run is marked active its strength is within [0.01, 1] and
\* its duration within [20, 2000].
C17_TriggerStartsRun ==
  [][/\ (/\ lastCall'.op = "degauss"
          /\ ~InFlight
          /\ ~StrengthNegligible(cooldownStrength(lastDegaussEndTime, now)))
          => /\ degaussStartTime' = now
             /\ degaussStrength' = cooldownStrength(lastDegaussEndTime, now)
             /\ DurationOfStrength(degaussDuration', degaussStrength')
             /\ lastDegaussEndTime' = lastDegaussEndTime
     /\ degaussStartTime' # 0 => RunInRange(degaussStrength', degaussDuration')]_vars

\* degauss() has just started a run part of the way through the cooldown:
\* its strength is below 1 and its duration below 2000
C17_Witness ==
  /\ lastCall.op = "degauss"
  /\ degaussStartTime = now /\ now > 0
  /\ lastDegaussEndTime # 0
  /\ degaussStrength.num < degaussStrength.den
  /\ DurationCmp(DEGAUSS_DURATION_BASE_MS, degaussDuration) > 0

\* the draw calls include the full-surface overlay of the degauss path
HasOverlay(draws) == \E i \in DOMAIN draws : draws[i].style = "rgba(255, 0, 255)"

\* C18: every render() call first checks the degauss run: if the marker is set
\* and now - degaussStartTime >= degaussDuration it sets degaussStartTime = 0
\* and lastDegaussEndTime = now before drawing (the frame is drawn without the
\* degauss overlay); if now - degaussStartTime < degaussDuration it leaves the
\* degauss state unchanged; after any render() call degaussStartTime is
\* nonzero only if the duration of the run has not elapsed.
C18_RenderExpiresRun ==
  [][lastCall'.op = "render"
       => /\ (degaussStartTime # 0 /\ ~InFlight)
               => /\ degaussStartTime' = 0
                  /\ lastDegaussEndTime' = now
                  /\ UNCHANGED <<degaussDuration, degaussStrength>>
                  /\ ~HasOverlay(lastCall'.draws)
          /\ InFlight => (UNCHANGED degaussVars /\ HasOverlay(lastCall'.draws))
          /\ degaussStartTime = 0 => UNCHANGED degaussVars
          /\ degaussStartTime' # 0
               => ElapsedLess(now - degaussStartTime', degaussDuration')]_vars

\* render() has just ended a full run, called exactly 2000 after its start
C18_Witness ==
  /\ lastCall.op = "render"
  /\ degaussStartTime = 0
  /\ lastDegaussEndTime = now
  /\ now = lastRunStart + DEGAUSS_DURATION_BASE_MS
  /\ ~HasOverlay(lastCall.draws)

\* C19, as amended: in every reachable state that a render() or a degauss()
\* call has just produced and in which the degauss effect is marked active
\* (degaussStartTime # 0), 0 <= now - degaussStartTime < degaussDuration.
C19_ActiveWithinDurationAfterCall ==
  (lastCall.op \in {"render", "degauss"} /\ degaussStartTime # 0)
    => (0 <= now - degaussStartTime /\ InFlight)

\* render() has just drawn a frame of a run that started earlier
C19_Witness ==
  /\ lastCall.op = "render"
  /\ degaussStartTime # 0
  /\ degaussStartTime < now
  /\ HasOverlay(lastCall.draws)

\* C19, as claimed: in every reachable state in which the degauss effect is
\* marked active, 0 <= now - degaussStartTime < degaussDuration.
C19_ActiveWithinDuration ==
  degaussStartTime # 0 => (0 <= now - degaussStartTime /\ InFlight)

\* C20: render() and degauss() never change any cell: after either call, on
\* the idle path and on the degauss warp path alike, every cell's state,
\* onTimestamp and offTimestamp are what they were before the call; cells
\* change only through setPixel, clear and clearRect.
C20_OnlyThePixelCallsChangeCells ==
  [][/\ lastCall'.op \in {"render", "degauss"} => pixels' = pixels
     /\ pixels' # pixels => lastCall'.op \in {"setPixel", "clear", "clearRect"}]_vars

\* render() has just drawn a lit cell through the degauss warp path
C20_Witness ==
  /\ lastCall.op = "render"
  /\ HasOverlay(lastCall.draws)
  /\ CellFillsOf(lastCall.draws) # {}
  /\ \E x \in Cols, y \in Rows : Cell(x, y).state

\* C21: render is idempotent for a fixed time: a render() call that directly
\* follows another one, the clock reading the same now, issues the same
\* sequence of draw calls as the first and leaves the cells and the degauss
\* fields as the first left them, also when the first call performed the
\* degauss expiry transition.
C21_RenderIdempotent ==
  [][(renderStreak >= 1 /\ lastCall'.op = "render")
       => /\ now' = now
          /\ lastCall'.draws = lastCall.draws
          /\ UNCHANGED <<pixels, degaussVars>>]_vars

\* render() has been called twice in a row at the time a run expired, with a
\* lit cell on the display: the first call made the expiry transition, and
\* both frames show the cell and no overlay
C21_Witness ==
  /\ renderStreak = 2
  /\ lastRunStart # 0
  /\ degaussStartTime = 0
  /\ lastDegaussEndTime = now
  /\ CellFillsOf(lastCall.draws) # {}

\* a draw call covers the whole physical surface
IsFullSurface(d) ==
  /\ BEq(d.x, BZero) /\ BEq(d.y, BZero)
  /\ BEq(d.w, Lin(displayWidth, 1)) /\ BEq(d.h, Lin(displayHeight, 1))

IsOverlay(d) == d.style = "rgba(255, 0, 255)"

\* 0.35 and decay * strength * 0.35 at tMs into a run, in units of 1/Fine
OverlayAlphaMax == Lin(35 * (Fine \div 100), Fine)
OverlayAlphaFixed(tMs, strength) ==
  LET product == MulFine(DecayFixed(tMs), StrengthFixed(strength))
  IN  Lin((product \div 100) * 35 + ((product % 100) * 35) \div 100, Fine)

\* C22: every render() call issues its draw calls in this order: first one
\* black fill of the whole surface, then the per-cell rectangles, and last one
\* full-surface magenta overlay, issued if and only if the degauss effect is
\* active after the expiry check; the overlay alpha is decay x strength x 0.35
\* and never exceeds 0.35.
C22_DrawOrder ==
  lastCall.op = "render" =>
    LET draws == lastCall.draws
        n == Len(draws)
        active == degaussStartTime # 0
    IN  /\ n >= 1
        /\ draws[1].style = "#000000" /\ IsFullSurface(draws[1])
        /\ active <=> (n >= 2 /\ IsOverlay(draws[n]))
        /\ \A i \in 2 .. n : (IsOverlay(draws[i]) => i = n)
        /\ \A i \in 2 .. (IF active THEN n - 1 ELSE n) : IsCellFill(draws[i])
        /\ active =>
             /\ IsFullSurface(draws[n])
             /\ BEq(draws[n].alpha,
                    OverlayAlphaFixed(now - degaussStartTime, degaussStrength))
             /\ BLeq(BZero, draws[n].alpha)
             /\ BLeq(draws[n].alpha, OverlayAlphaMax)
        /\ (active /\ now = degaussStartTime /\ StrengthIsOne(degaussStrength))
             => BEq(draws[n].alpha, OverlayAlphaMax)

\* render() has just drawn, part of the way through a run, the black fill,
\* a lit cell and then the overlay at an alpha strictly between 0 and 0.35
C22_Witness ==
  /\ lastCall.op = "render"
  /\ degaussStartTime # 0 /\ degaussStartTime < now
  /\ Len(lastCall.draws) >= 3
  /\ IsCellFill(lastCall.draws[2])
  /\ IsOverlay(lastCall.draws[Len(lastCall.draws)])
  /\ BLess(BZero, lastCall.draws[Len(lastCall.draws)].alpha)
  /\ BLess(lastCall.draws[Len(lastCall.draws)].alpha, OverlayAlphaMax)

\* the draw call d fills the rectangle of cell (x, y): top-left at
\* (x * (pixelWidth + gapWidth), y * (pixelHeight + gapHeight)), of size
\* pixelWidth by pixelHeight
FillsCellRect(d, x, y) ==
  /\ IsCellFill(d)
  /\ BEq(d.x, Lin(x * (pixelWidthNum + gapWidth * emulatedWidth), emulatedWidth))
  /\ BEq(d.y, Lin(y * (pixelHeightNum + gapHeight * emulatedHeight), emulatedHeight))
  /\ BEq(d.w, Lin(pixelWidthNum, emulatedWidth))
  /\ BEq(d.h, Lin(pixelHeightNum, emulatedHeight))

\* C23: when the degauss effect is not active, render() fills the rectangle of
\* cell (x, y) if and only if that cell's own brightness at now is greater
\* than 0, once, with that brightness as alpha; a cell of brightness 0 gets no
\* draw call and no cell is read through another cell's position.
C23_IdleFrameDrawsLitCells ==
  (lastCall.op = "render" /\ degaussStartTime = 0) =>
    LET draws == lastCall.draws
    IN  /\ \A x \in Cols, y \in Rows :
             LET b == calculateBrightness(Cell(x, y), now)
                 mine == {i \in DOMAIN draws : FillsCellRect(draws[i], x, y)}
             IN  IF BLess(BZero, b)
                 THEN /\ Cardinality(mine) = 1
                      /\ \A i \in mine : BEq(draws[i].alpha, b)
                 ELSE mine = {}
        /\ \A i \in CellFillsOf(draws) :
             \E x \in Cols, y \in Rows : FillsCellRect(draws[i], x, y)

\* render() has just drawn an idle frame in which the last cell of the first
\* row is lit and drawn and the cell below the first cell is dark and not
\* drawn
C23_Witness ==
  /\ lastCall.op = "render"
  /\ degaussStartTime = 0
  /\ BLess(BZero, calculateBrightness(Cell(emulatedWidth - 1, 0), now))
  /\ \E i \in DOMAIN lastCall.draws : FillsCellRect(lastCall.draws[i], emulatedWidth - 1, 0)
  /\ BEq(calculateBrightness(Cell(0, 1), now), BZero)
  /\ ~\E i \in DOMAIN lastCall.draws : FillsCellRect(lastCall.draws[i], 0, 1)

(***************************************************************************)
(* C24.  Bulk draw and dump.                                               *)
(***************************************************************************)
\* the dump a pattern stands for: '#' for 1 and '.' for 0, one row per line
RECURSIVE PatternRowText(_, _)
PatternRowText(row, k) ==
  IF k > Len(row) THEN ""
  ELSE (IF row[k] = 1 THEN "#" ELSE ".") \o PatternRowText(row, k + 1)

RECURSIVE PatternText(_, _)
PatternText(pattern, k) ==
  IF k > Len(pattern) THEN ""
  ELSE PatternRowText(pattern[k], 1)
       \o (IF k < Len(pattern) THEN "\n" \o PatternText(pattern, k + 1) ELSE "")

\* a w x h pattern of 0 bits
BlankPattern(w, h) == [r \in 1 .. h |-> [c \in 1 .. w |-> 0]]

\* the dump of the rectangle of the pattern last drawn
DumpOfLastPattern(px) ==
  toASCII(GlyphWidth, GlyphHeight, px, lastPattern'[2], lastPattern'[3],
          PatternWidth(lastPattern'[1]), PatternHeight(lastPattern'[1]))

\* C24: a drawPattern(glyph, x, y, 1) on a display whose cells are all OFF,
\* with the glyph's rectangle inside the grid, leaves a display whose toASCII
\* dump of that rectangle is the glyph's bitmap, '#' for the 1 bits and '.'
\* for the 0 bits, the rows joined by newlines; after drawPattern of the
\* digit 5 at (0, 0) the dump toASCII(0, 0, 5, 7) reads '#####', '#....',
\* '#....', '#####', '....#', '....#', '#####'; and after clear() the dump of
\* the whole display is all '.'.
C24_DrawnPatternDumpsAsItsBitmap ==
  [][/\ (lastCall'.op = "drawPattern" /\ AllOff(pixels))
          => /\ ( /\ lastPattern'[2] + PatternWidth(lastPattern'[1]) <= GlyphWidth
                  /\ lastPattern'[3] + PatternHeight(lastPattern'[1]) <= GlyphHeight )
                  => DumpOfLastPattern(pixels') = PatternText(lastPattern'[1], 1)
             /\ lastPattern' = <<PIXEL_FONT[5], 0, 0, TRUE>>
                  => toASCII(GlyphWidth, GlyphHeight, pixels', 0, 0, 5, 7)
                       = "#####\n#....\n#....\n#####\n....#\n....#\n#####"
     /\ lastCall'.op = "clear"
          => toASCII(GlyphWidth, GlyphHeight, pixels', 0, 0, GlyphWidth, GlyphHeight)
               = PatternText(BlankPattern(GlyphWidth, GlyphHeight), 1)]_vars

\* the digit 5 was drawn at (0, 0) on a display cleared before, and the dump
\* of its 5 x 7 rectangle shows the digit
C24_Witness ==
  /\ lastCall.op = "drawPattern"
  /\ lastPattern = <<PIXEL_FONT[5], 0, 0, TRUE>>
  /\ \E t \in 1 .. now - 1 : \A y \in GlyphRows, x \in GlyphCols : pixels[y][x].offTimestamp = t
  /\ pixels[0][0].state
  /\ ~pixels[1][1].state
  /\ toASCII(GlyphWidth, GlyphHeight, pixels, 0, 0, 5, 7)
       = "#####\n#....\n#....\n#####\n....#\n....#\n#####"

(***************************************************************************)
(* C25.  stop() ends the render loop.                                      *)
(***************************************************************************)
\* the step is a frame rendered by the loop's callback
LoopRendered == lastCall'.op = "renderLoop" /\ lastCall'.draws # <<>>

\* C25: stop() clears isRunning, takes the callback of animationFrameId away
\* from the browser and sets animationFrameId to null; a callback run while
\* isRunning is false draws nothing and requests no callback; and from a
\* stop() until the next start() no callback of the loop renders a frame.
C25_NoFrameAfterStop ==
  [][/\ lastCall'.op = "stop"
          => /\ ~loop'.isRunning
             /\ loop'.animationFrameId = null
             /\ loop.animationFrameId \notin loop'.pending
     /\ (lastCall'.op = "renderLoop" /\ ~loop.isRunning)
          => /\ lastCall'.draws = <<>>
             /\ loop'.animationFrameId = loop.animationFrameId
             /\ loop'.pending \subseteq loop.pending
             /\ UNCHANGED degaussVars
     /\ stoppedSince # -1 => ~LoopRendered]_vars

\* the loop rendered frames from its callback, was stopped, and time passed
C25_Witness ==
  /\ stoppedSince # -1
  /\ now >= stoppedSince + 2000
  /\ loop.nextId >= 3
  /\ ~loop.isRunning
  /\ lastCall.op = "tick"

(***************************************************************************)
(* C30.  Every degauss run ends.                                           *)
(***************************************************************************)
\* C30: when the display went from Idle to Active at time s (activeSince),
\* the first render() call made at a time >= s + 2000 leaves it Idle, with
\* degaussStartTime 0 and lastDegaussEndTime the time of that call, whatever
\* degauss() calls were made since s.
C30_RunEndsByFirstLateRender ==
  [][(/\ lastCall'.op = "render"
      /\ activeSince # -1
      /\ now >= activeSince + DEGAUSS_DURATION_BASE_MS)
       => /\ degaussStartTime' = 0
          /\ lastDegaussEndTime' = now]_vars

\* the same, for the runs that no degauss() call restarted: the start time
\* is still the time at which the display became Active
C30_RunEndsUnlessRestarted ==
  [][(/\ lastCall'.op = "render"
      /\ activeSince # -1
      /\ lastRunStart = activeSince
      /\ now >= activeSince + DEGAUSS_DURATION_BASE_MS)
       => /\ degaussStartTime' = 0
          /\ lastDegaussEndTime' = now]_vars

\* a run that degauss() calls were made in, ended by a late render()
C30_EndedWitness ==
  /\ lastCall.op = "render"
  /\ activeSince = -1
  /\ lastRunStart > 0
  /\ lastDegaussEndTime >= lastRunStart + DEGAUSS_DURATION_BASE_MS
  /\ steps >= 4

\* a run restarted by a degauss() call made after its duration had passed
\* and before any render(): the display has been Active for longer than 2000
C30_RestartedWitness ==
  /\ lastCall.op = "render"
  /\ activeSince # -1
  /\ lastRunStart >= activeSince + DEGAUSS_DURATION_BASE_MS
  /\ degaussStartTime = lastRunStart

(***************************************************************************)
(* C27: pressing P while PLAYING takes the game to PAUSED, pressing P      *)
(* while PAUSED takes it to COUNTDOWN, and a countdown is left only for    *)
(* PLAYING.  When the countdown that follows a pause ends, the ball's      *)
(* position and velocity, both paddles and both scores are what they were  *)
(* at the moment of the pause; when the countdown of a new game ends, the  *)
(* ball is one that resetBall() puts at the centre.                        *)
(***************************************************************************)
ResetBalls == {resetBall(game.ball, random) : random \in RandomArgs}

\* the step being made is a keydown event that the listeners take for the P
\* key, for the Enter key: by its e.key or by its e.keyCode
PausePressed == lastCall'.op \in PauseKeys \/ gameHist'.keyCode = PauseKeyCode
EnterPressed == lastCall'.op = "Enter" \/ gameHist'.keyCode = EnterKeyCode

C27_PauseResumeRestores ==
  [][/\ (PausePressed /\ game.gameState = "PLAYING")
          => game'.gameState = "PAUSED"
     /\ (PausePressed /\ game.gameState = "PAUSED")
          => game'.gameState = "COUNTDOWN"
     /\ game.gameState = "COUNTDOWN"
          => game'.gameState \in {"COUNTDOWN", "PLAYING"}
     /\ (game.gameState = "COUNTDOWN" /\ game'.gameState = "PLAYING")
          => IF gameHist.countdownFrom = "pause"
             THEN SavedState(game') = gameHist.atPause[1]
             ELSE game'.ball \in ResetBalls]_vars

\* play was resumed by this update(), with a ball away from the centre and
\* a left paddle away from its first position, as they were at the pause
C27_Witness ==
  /\ lastCall.op = "update"
  /\ game.gameState = "PLAYING"
  /\ game.countdownNumber = 0
  /\ game.countdownStartTime = now
  /\ gameHist.countdownFrom = "pause"
  /\ SavedState(game) = gameHist.atPause[1]
  /\ game.ball.x # CentreX
  /\ game.ball.vx # DZero
  /\ game.leftPaddle.y # PaddleStartY

\* a countdown of a resumed game has just passed a frame one refresh
\* interval after the one before, without the number changing
C27_SlowCountdownWitness ==
  /\ lastCall.op = "update"
  /\ game.gameState = "COUNTDOWN"
  /\ gameHist.countdownFrom = "pause"
  /\ gameHist.numberSince < now
  /\ game.countdownStartTime > gameHist.countdownSince

\* the countdown of a new game has just ended and the ball is served
C27_NewGameWitness ==
  /\ lastCall.op = "update"
  /\ game.gameState = "PLAYING"
  /\ game.countdownStartTime = now
  /\ gameHist.countdownFrom = "new"
  /\ game.ball.x = CentreX
  /\ game.ball.vx # DZero

(***************************************************************************)
(* C26: when an update() made in PLAYING takes a side's score to 5, that   *)
(* update() leaves the game in GAME_OVER with that side as the winner and  *)
(* the ball at rest; and from then until a new game is started no step     *)
(* changes a score.                                                        *)
(***************************************************************************)
Sides == {"left", "right"}

C26_FirstToFiveWins ==
  [][/\ \A side \in Sides :
          (/\ lastCall'.op = "update"
           /\ game.gameState = "PLAYING"
           /\ game.score[side] < GOALS_TO_WIN
           /\ game'.score[side] >= GOALS_TO_WIN)
            => /\ game'.gameState = "GAME_OVER"
               /\ game'.winner = side
               /\ game'.ball.vx = DZero
               /\ game'.ball.vy = DZero
     /\ (gameHist.over /\ gameHist'.over) => game'.score = game.score]_vars

\* the left side won by its fifth goal, and update() has been called again
\* since
C26_Witness ==
  /\ lastCall.op = "update"
  /\ gameHist.over
  /\ gameHist.goal = "none"
  /\ game.gameState = "GAME_OVER"
  /\ game.winner = "left"
  /\ game.score.left = GOALS_TO_WIN
  /\ game.ball.vx = DZero
  /\ game.ball.vy = DZero

\* the right side has just won by its fifth goal
C26_RightWitness ==
  /\ lastCall.op = "update"
  /\ gameHist.over
  /\ gameHist.goal = "right"
  /\ game.gameState = "GAME_OVER"
  /\ game.winner = "right"
  /\ game.score.right = GOALS_TO_WIN
  /\ game.ball.vx = DZero

(***************************************************************************)
(* C28: an update() in which the ball hits a paddle leaves the ball faster *)
(* than it was, unless it is at twice BALL_SPEED already, and never faster *)
(* than twice BALL_SPEED.                                                  *)
(***************************************************************************)
MAX_SPEED_MULTIPLIER == 2

\* the square of the ball's speed
Speed2(ball) == DAdd(DMul(ball.vx, ball.vx), DMul(ball.vy, ball.vy))

MaxSpeed2 ==
  DMul(DMul(DInt(MAX_SPEED_MULTIPLIER), BALL_SPEED),
       DMul(DInt(MAX_SPEED_MULTIPLIER), BALL_SPEED))

\* the update() just made hit a paddle and scored no goal
Volley == lastCall'.op = "update" /\ gameHist'.hits # "none" /\ gameHist'.goal = "none"

C28_SpeedRisesWithEachVolley ==
  [][Volley => /\ \/ DLess(Speed2(game.ball), Speed2(game'.ball))
                  \/ Speed2(game'.ball) = MaxSpeed2
               /\ DLeq(Speed2(game'.ball), MaxSpeed2)]_vars

\* what does hold: the ball is never faster than twice BALL_SPEED
C28_SpeedNeverAboveMaximum == DLeq(Speed2(game.ball), MaxSpeed2)

\* a ball the left paddle has just hit
C28_VolleyWitness ==
  /\ lastCall.op = "update"
  /\ gameHist.hits = "left"
  /\ gameHist.goal = "none"
  /\ DLess(DZero, game.ball.vx)

(***************************************************************************)
(* C29: in every update() made in PLAYING the AI's paddle moves by at most *)
(* 71% of PADDLE_SPEED, upwards or downwards.                              *)
(***************************************************************************)
\* how far the update() just made moved the AI's paddle
AIMove == DAbs(DSub(game'.rightPaddle.y, game.rightPaddle.y))

Playing == lastCall'.op = "update" /\ game.gameState = "PLAYING"

C29_AIWithin71Percent ==
  [][Playing => DLeq(AIMove, DMul(Dec(71, 100), PADDLE_SPEED))]_vars

\* what does hold: the AI's paddle is moved by its velocity and then kept
\* between the walls, and the velocity is at most 95% of PADDLE_SPEED, less
\* than the step of the human's paddle
C29_AIWithin95Percent ==
  [][Playing
       => /\ DLeq(DAbs(game'.ai.currentVelocity), aiMaxSpeed)
          /\ DLess(aiMaxSpeed, PADDLE_SPEED)
          /\ game'.rightPaddle =
               constrainPaddle([y |-> DAdd(game.rightPaddle.y,
                                           IF game'.ai.reacting
                                           THEN game.ai.currentVelocity
                                           ELSE game'.ai.currentVelocity)])]_vars

\* the AI's paddle moves faster than 71% of PADDLE_SPEED
C29_FastWitness ==
  /\ lastCall.op = "update"
  /\ game.gameState = "PLAYING"
  /\ DLess(DMul(Dec(71, 100), PADDLE_SPEED), game.ai.currentVelocity)
  /\ ~game.ai.reacting

(***************************************************************************)
(* C31: at most one callback of the render loop is with the browser at any *)
(* time.  A start() made while the loop runs changes nothing and draws     *)
(* nothing; a start() made while it is stopped renders one frame and       *)
(* leaves exactly one callback requested, the one of animationFrameId.     *)
(***************************************************************************)
C31_AtMostOneCallback ==
  [][/\ Cardinality(loop'.pending) <= 1
     /\ (lastCall'.op = "start" /\ loop.isRunning)
          => /\ loop' = loop
             /\ lastCall'.draws = <<>>
     /\ (lastCall'.op = "start" /\ ~loop.isRunning)
          => /\ lastCall'.draws # <<>>
             /\ loop'.isRunning
             /\ loop'.pending = {loop'.animationFrameId}
             /\ loop'.animationFrameId = loop.nextId]_vars

\* a start() that rendered a frame although an earlier start() had requested
\* callbacks: the loop was started, stopped and started again
C31_Witness ==
  /\ lastCall.op = "start"
  /\ lastCall.draws # <<>>
  /\ loop.nextId >= 3
  /\ loop.isRunning
  /\ Cardinality(loop.pending) = 1

(***************************************************************************)
(* C32.  The degauss path of render() samples inside the grid.             *)
(***************************************************************************)
\* the column and row render() computes for the destination (x, y) before
\* it clamps them: Math.floor(x_src), Math.floor(y_src)
RawSource(x, y) ==
  [x |-> FloorXSrc(x, y, now - degaussStartTime, degaussStrength),
   y |-> FloorYSrc(x, y, now - degaussStartTime, degaussStrength)]

\* the indices a displacement of up to DEGAUSS_AMP_PX cells either way gives
RawIndices(n) == (0 - DEGAUSS_AMP_PX - 1) .. (n + DEGAUSS_AMP_PX)

\* C32: in a frame drawn while the degauss effect is active, the column and
\* row sampled for every destination cell lie inside the grid, whatever the
\* displacement, and clamping takes any index into the grid; render() does not
\* fail; and the rectangle of a destination cell is filled, at the cell's own
\* undisplaced position, if and only if the brightness of the cell sampled
\* for it is greater than 0, once and with that brightness as alpha.
C32_ActiveFrameSamplesInsideGrid ==
  (lastCall.op = "render" /\ degaussStartTime # 0) =>
    LET draws == lastCall.draws
    IN  /\ ~lastCall.threw
        /\ \A v \in RawIndices(emulatedWidth) : ClampIndex(v, emulatedWidth - 1) \in Cols
        /\ \A v \in RawIndices(emulatedHeight) : ClampIndex(v, emulatedHeight - 1) \in Rows
        /\ \A x \in Cols, y \in Rows :
             LET src == WarpSource(x, y, now - degaussStartTime, degaussStrength)
                 mine == {i \in DOMAIN draws : FillsCellRect(draws[i], x, y)}
             IN  /\ src.x \in Cols /\ src.y \in Rows
                 /\ IF BLess(BZero, calculateBrightness(Cell(src.x, src.y), now))
                    THEN /\ Cardinality(mine) = 1
                         /\ \A i \in mine :
                              BEq(draws[i].alpha,
                                  calculateBrightness(Cell(src.x, src.y), now))
                    ELSE mine = {}
        /\ \A i \in CellFillsOf(draws) :
             \E x \in Cols, y \in Rows : FillsCellRect(draws[i], x, y)

\* render() has just drawn an active frame in which a dark destination cell
\* is filled with the brightness of a lit cell it samples, and the index
\* computed for some cell lay outside the grid before it was clamped
C32_Witness ==
  /\ lastCall.op = "render"
  /\ degaussStartTime # 0
  /\ \E x \in Cols, y \in Rows :
       \/ RawSource(x, y).x \notin Cols
       \/ RawSource(x, y).y \notin Rows
  /\ \E x \in Cols, y \in Rows :
       LET src == WarpSource(x, y, now - degaussStartTime, degaussStrength)
       IN  /\ src # [x |-> x, y |-> y]
           /\ BEq(calculateBrightness(Cell(x, y), now), BZero)
           /\ BLess(BZero, calculateBrightness(Cell(src.x, src.y), now))
           /\ \E i \in DOMAIN lastCall.draws : FillsCellRect(lastCall.draws[i], x, y)

(***************************************************************************)
(* C33: both scores are between 0 and 5 and at most one of them is 5.  A   *)
(* step changes a score only if it is an update() made in PLAYING in which *)
(* a side scored, and then it adds 1 to that side's score and leaves the   *)
(* other, or if it is the start of a new game, which sets both to 0.       *)
(***************************************************************************)
ScoresInRange(score) ==
  /\ \A side \in Sides : score[side] \in 0 .. GOALS_TO_WIN
  /\ \E side \in Sides : score[side] < GOALS_TO_WIN

\* the step starts a new game
NewGameStarted == game.gameState = "MENU" /\ game'.gameState = "COUNTDOWN"

C33_ScoresCountGoals ==
  [][/\ ScoresInRange(game.score)
     /\ ScoresInRange(game'.score)
     /\ game'.score # game.score
          => \/ /\ lastCall'.op = "update"
                /\ game.gameState = "PLAYING"
                /\ gameHist'.goal \in Sides
                /\ game'.score = [game.score EXCEPT ![gameHist'.goal] = @ + 1]
             \/ /\ NewGameStarted
                /\ game'.score = [left |-> 0, right |-> 0]
     /\ (lastCall'.op = "update" /\ gameHist'.goal \in Sides)
          => game'.score[gameHist'.goal] = game.score[gameHist'.goal] + 1]_vars

\* a game that a fifth goal ended was left for the menu and a new game was
\* started, which set the scores to 0
C33_Witness ==
  /\ lastCall.op = "Enter"
  /\ game.gameState = "COUNTDOWN"
  /\ game.score = [left |-> 0, right |-> 0]
  /\ game.restartButtonBounds
  /\ ~gameHist.over

\* the P key has just resumed a game paused with goals on both sides, and
\* unpauseGame() has written the scores back
C33_ResumeWitness ==
  /\ lastCall.op = "p"
  /\ game.gameState = "COUNTDOWN"
  /\ gameHist.countdownFrom = "pause"
  /\ game.score.left > 0
  /\ game.score.right > 0
  /\ game.score = gameHist.atPause[1].score

(***************************************************************************)
(* C34: in GAME_OVER the winner is a side whose score is 5, and in every   *)
(* other state of the game the winner is null.                             *)
(***************************************************************************)
C34_WinnerScoredFive ==
  /\ game.gameState = "GAME_OVER"
       => /\ game.winner \in Sides
          /\ game.score[game.winner] = GOALS_TO_WIN
  /\ game.gameState # "GAME_OVER" => game.winner = "null"

\* what does hold: a winner is named in GAME_OVER and in no other state, and
\* a game that update() ended has the side with 5 goals as its winner
C34_WinnerOnlyInGameOver ==
  [][/\ game'.gameState = "GAME_OVER" <=> game'.winner \in Sides
     /\ game'.gameState # "GAME_OVER" => game'.winner = "null"
     /\ (lastCall'.op = "update" /\ game.gameState = "PLAYING"
           /\ game'.gameState = "GAME_OVER")
          => game'.score[game'.winner] = GOALS_TO_WIN]_vars

\* the W key pressed in the menu named the left side the winner of a game
\* in which it has no goal
C34_DebugWinWitness ==
  /\ lastCall.op = "w"
  /\ game.gameState = "GAME_OVER"
  /\ game.winner = "left"
  /\ game.score.left = 0

(***************************************************************************)
(* C35: a countdown starts at 3; while the game is in COUNTDOWN the number *)
(* only goes from 3 to 2 to 1, each after having been shown for at least   *)
(* 750 ms, and is 1, 2 or 3 after every update() that leaves the game in   *)
(* COUNTDOWN; the game leaves COUNTDOWN only for PLAYING, once the 1 has    *)
(* been shown for at least 750 ms and no earlier than 2250 ms after the    *)
(* countdown started.                                                      *)
(***************************************************************************)
C35_CountdownTakesItsTime ==
  [][/\ (game.gameState # "COUNTDOWN" /\ game'.gameState = "COUNTDOWN")
          => /\ EnterPressed \/ PausePressed \/ lastCall'.op = "click"
             /\ game'.countdownNumber = 3
     /\ (lastCall'.op = "update" /\ game'.gameState = "COUNTDOWN")
          => game'.countdownNumber \in 1 .. 3
     /\ game.gameState = "COUNTDOWN"
          => /\ game'.gameState \in {"COUNTDOWN", "PLAYING"}
             /\ game'.gameState = "COUNTDOWN"
                  => \/ game'.countdownNumber = game.countdownNumber
                     \/ /\ game'.countdownNumber = game.countdownNumber - 1
                        /\ now' >= gameHist.numberSince + countdownDuration
             /\ game'.gameState = "PLAYING"
                  => /\ game.countdownNumber = 1
                     /\ now' >= gameHist.numberSince + countdownDuration
                     /\ now' >= gameHist.countdownSince + 3 * countdownDuration]_vars

\* play was resumed by the countdown that followed a pause, more than 2250 ms
\* after it started because a frame came late
C35_Witness ==
  /\ lastCall.op = "update"
  /\ game.gameState = "PLAYING"
  /\ game.countdownNumber = 0
  /\ gameHist.numberSince = now
  /\ gameHist.countdownFrom = "pause"
  /\ now > gameHist.countdownSince + 3 * countdownDuration

(***************************************************************************)
(* C36: after every update() made in PLAYING, which calls updatePaddle for *)
(* the human's and for the AI's paddle, both paddles are between the       *)
(* walls: 1 <= paddle.y and paddle.y + paddle.height <= height - 1,        *)
(* whatever the controllers did.                                           *)
(***************************************************************************)
BetweenWalls(paddle) ==
  /\ DLeq(DInt(1), paddle.y)
  /\ DLeq(DAdd(paddle.y, DInt(PADDLE_HEIGHT)), DInt(height - 1))

C36_PaddlesBetweenWalls ==
  [][(lastCall'.op = "update" /\ game.gameState = "PLAYING")
       => /\ BetweenWalls(game'.leftPaddle)
          /\ BetweenWalls(game'.rightPaddle)]_vars

\* update() has just held both paddles at the bottom wall: the human's with
\* the down key held, the AI's while its velocity points downwards
C36_Witness ==
  /\ lastCall.op = "update"
  /\ game.gameState = "PLAYING"
  /\ game.keys.ArrowDown
  /\ ~game.keys.ArrowUp
  /\ game.leftPaddle.y = PaddleMaxY
  /\ game.rightPaddle.y = PaddleMaxY
  /\ DLess(DZero, game.ai.currentVelocity)
  /\ ~game.ai.reacting

\* update() has just held both paddles at the top wall: the human's with the
\* up key held, the AI's while its velocity points upwards
C36_TopWitness ==
  /\ lastCall.op = "update"
  /\ game.gameState = "PLAYING"
  /\ game.keys.ArrowUp
  /\ game.leftPaddle.y = DInt(1)
  /\ game.rightPaddle.y = DInt(1)
  /\ DLess(game.ai.currentVelocity, DZero)
  /\ ~game.ai.reacting

(***************************************************************************)
(* C37.  The ball stays between the walls.                                 *)
(***************************************************************************)
TopLimit == DInt(1)
BottomLimit == DInt(height - 2)

\* the row the update() just made moved the ball to, before the wall tests
MovedRow == DAdd(game.ball.y, game.ball.vy)

ReachedTop == DLeq(MovedRow, TopLimit)
ReachedBottom == DLeq(BottomLimit, MovedRow)

\* the ball's row is between the limits
InsideCourt(ball) == DLeq(TopLimit, ball.y) /\ DLeq(ball.y, BottomLimit)

\* C37 as stated: after every update() made in PLAYING the ball's row is
\* between 1 and height - 2, and an update() that moved the ball to a limit
\* or beyond leaves it on that limit with vy negated.
C37_WallAlwaysNegates ==
  [][Playing
       => /\ InsideCourt(game'.ball)
          /\ ReachedTop => game'.ball.y = TopLimit
          /\ ReachedBottom => game'.ball.y = BottomLimit
          /\ (ReachedTop \/ ReachedBottom) => game'.ball.vy = DNeg(game.ball.vy)]_vars

\* C37: after every update() made in PLAYING the ball's row is between 1
\* and height - 2, for any velocity; an update() that moved the ball to a
\* limit or beyond and scored no goal leaves the ball on that limit, and if
\* the ball hit no paddle in it either, with vy negated.
C37_BallBetweenWalls ==
  [][Playing
       => /\ InsideCourt(game'.ball)
          /\ gameHist'.goal = "none"
               => /\ ReachedTop => game'.ball.y = TopLimit
                  /\ ReachedBottom => game'.ball.y = BottomLimit
                  /\ ((ReachedTop \/ ReachedBottom) /\ gameHist'.hits = "none")
                       => game'.ball.vy = DNeg(game.ball.vy)]_vars

\* update() has just put the ball on a limit and a paddle hit it in the same
\* call, which left it a vy that points at the wall
C37_Witness ==
  /\ lastCall.op = "update"
  /\ gameHist.hits # "none"
  /\ gameHist.goal = "none"
  /\ \/ game.ball.y = TopLimit /\ DLess(game.ball.vy, DZero)
     \/ game.ball.y = BottomLimit /\ DLess(DZero, game.ball.vy)

\* update() has just bounced the ball off the bottom limit
C37_BounceWitness ==
  /\ lastCall.op = "update"
  /\ gameHist.hits = "none"
  /\ gameHist.goal = "none"
  /\ game.ball.y = BottomLimit
  /\ DLess(game.ball.vy, DZero)

\* update() has just bounced the ball off the top limit
C37_TopBounceWitness ==
  /\ lastCall.op = "update"
  /\ gameHist.hits = "none"
  /\ gameHist.goal = "none"
  /\ game.ball.y = TopLimit
  /\ DLess(DZero, game.ball.vy)

(***************************************************************************)
(* C38.  The edges of gameState.                                           *)
(***************************************************************************)
GameStates == {"MENU", "COUNTDOWN", "PLAYING", "PAUSED", "GAME_OVER"}

\* the changes of gameState of the state diagram, with the steps that make
\* them: the step being made goes from from to to along a listed edge
ListedEdge(from, to) ==
  \/ from = "MENU" /\ to = "COUNTDOWN" /\ (EnterPressed \/ lastCall'.op = "click")
  \/ from = "COUNTDOWN" /\ to = "PLAYING" /\ lastCall'.op = "update"
  \/ from = "PLAYING" /\ to = "PAUSED" /\ PausePressed
  \/ from = "PAUSED" /\ to = "COUNTDOWN" /\ PausePressed
  \/ from = "PLAYING" /\ to = "GAME_OVER" /\ lastCall'.op = "update"
  \/ from = "GAME_OVER" /\ to = "MENU" /\ (EnterPressed \/ lastCall'.op = "click")

\* the keys pressed in the states in which they are to do nothing
KeysWithoutEffect ==
  /\ game.gameState \in {"MENU", "COUNTDOWN", "GAME_OVER"}
       => \A e \in {KeyEvent("p"), KeyEvent("P"), CodeEvent(PauseKeyCode)} :
            keydown(game, e, now).gameState = game.gameState
  /\ game.gameState \in {"COUNTDOWN", "PLAYING", "PAUSED"}
       => \A e \in {KeyEvent("Enter"), CodeEvent(EnterKeyCode)} :
            keydown(game, e, now).gameState = game.gameState

\* C38: gameState is always one of MENU, COUNTDOWN, PLAYING, PAUSED and
\* GAME_OVER; every call that changes it follows a listed edge, and an
\* update() leaves PLAYING for GAME_OVER only with a score of 5; P pressed in
\* MENU, COUNTDOWN or GAME_OVER and Enter pressed in COUNTDOWN, PLAYING or
\* PAUSED leave it unchanged.
C38_OnlyListedEdges ==
  /\ [](game.gameState \in GameStates /\ KeysWithoutEffect)
  /\ [][/\ game'.gameState # game.gameState
             => ListedEdge(game.gameState, game'.gameState)
        /\ (game.gameState = "PLAYING" /\ game'.gameState = "GAME_OVER")
             => \E side \in Sides : game'.score[side] = GOALS_TO_WIN]_vars

\* what does hold: the same, for every call but the W and L keys
C38_ListedEdgesButDebugKeys ==
  /\ [](game.gameState \in GameStates /\ KeysWithoutEffect)
  /\ [][lastCall'.op \notin WinKeys \cup LoseKeys
          => /\ game'.gameState # game.gameState
                  => ListedEdge(game.gameState, game'.gameState)
             /\ (game.gameState = "PLAYING" /\ game'.gameState = "GAME_OVER")
                  => \E side \in Sides : game'.score[side] = GOALS_TO_WIN]_vars

\* the L key pressed in the menu took the game from MENU to GAME_OVER
C38_DebugEdgeWitness ==
  /\ lastCall.op = "L"
  /\ game.gameState = "GAME_OVER"
  /\ game.score.left = 0
  /\ game.score.right = 0

(***************************************************************************)
(* C39.  The game objects move only in PLAYING.                            *)
(***************************************************************************)
\* the ball, the paddles and the scores
GameObjects(g) ==
  [ball |-> g.ball, leftPaddle |-> g.leftPaddle, rightPaddle |-> g.rightPaddle,
   score |-> g.score]

\* the update() being made ends a countdown that a new game started
EndsNewGameCountdown ==
  /\ game.gameState = "COUNTDOWN"
  /\ game'.gameState = "PLAYING"
  /\ gameHist.countdownFrom = "new"

\* C39: an update() made in COUNTDOWN or PAUSED leaves the ball's position
\* and velocity, both paddles and both scores as they were, but for the
\* update() that ends the countdown of a new game: that one leaves the
\* paddles and the scores as they were and the ball freshly served.
C39_ObjectsMoveOnlyInPlaying ==
  [][(lastCall'.op = "update" /\ game.gameState \in {"COUNTDOWN", "PAUSED"})
       => IF EndsNewGameCountdown
          THEN /\ game'.leftPaddle = game.leftPaddle
               /\ game'.rightPaddle = game.rightPaddle
               /\ game'.score = game.score
               /\ game'.ball \in ResetBalls
          ELSE GameObjects(game') = GameObjects(game)]_vars

\* an update() was made in PAUSED with a ball in flight, a key held down and
\* the left paddle away from its first row
C39_Witness ==
  /\ lastCall.op = "update"
  /\ game.gameState = "PAUSED"
  /\ game.ball.vx # DZero
  /\ game.ball.x # CentreX
  /\ game.keys["ArrowDown"]
  /\ game.leftPaddle.y # PaddleStartY

\* an update() was made one refresh interval into the countdown after a
\* pause, with a key held down: the number stayed and nothing moved
C39_CountdownWitness ==
  /\ lastCall.op = "update"
  /\ game.gameState = "COUNTDOWN"
  /\ gameHist.countdownFrom = "pause"
  /\ gameHist.numberSince < now
  /\ game.ball.vx # DZero
  /\ game.keys["ArrowDown"]

\* the update() that ended the countdown of a new game served the ball
C39_ServeWitness ==
  /\ lastCall.op = "update"
  /\ game.gameState = "PLAYING"
  /\ game.countdownStartTime = now
  /\ gameHist.countdownFrom = "new"
  /\ game.ball.vx # DZero
  /\ game.leftPaddle.y = PaddleStartY

(***************************************************************************)
(* C40.  The court stays ON.                                               *)
(***************************************************************************)
\* getPixel(x, y) on the game's display, for a court cell
CourtPixel(c) == c \notin court.off

\* C40: in the state the constructor leaves and after every update(), key
\* handler and click handler, in every game state, getPixel is true for
\* every cell of the top wall (row 0), of the bottom wall (row height - 1)
\* and of the dashed line (column floor(width / 2), even rows), whatever the
\* handler cleared or drew.
C40_CourtStaysOn == \A c \in CourtCells : CourtPixel(c)

\* update() has just switched a cell of the dashed line off, when it cleared
\* the ball's previous cell, and the cell is ON
C40_Witness ==
  /\ lastCall.op = "update"
  /\ \E c \in court.cleared : c[1] = midX /\ c[2] % 2 = 0 /\ CourtPixel(c)

\* a countdown step has just cleared the countdown area and drawn the 2
C40_CountdownWitness ==
  /\ lastCall.op = "update"
  /\ game.gameState = "COUNTDOWN"
  /\ game.countdownNumber = 2
  /\ \A c \in CourtCells : CourtPixel(c)

\* in play, the ball left the dashed line on an even row: its previous cell
\* was on the line and has just been cleared and redrawn
C40_PlayWitness ==
  /\ lastCall.op = "update"
  /\ game.gameState = "PLAYING"
  /\ gameHist.hits = "none"
  /\ game.ball.vx # DZero
  /\ DFloor(game.ball.x) # midX
  /\ court.cleared # {}
  /\ \A c \in CourtCells : CourtPixel(c)
====
